---- MODULE Spec2Model ----
(***************************************************************************)
(* Mining finance backend: the user-scoped repositories (income, expense,  *)
(* inventory, user) over one relational store, and the HTTP handlers that  *)
(* call them.  Tables are sequences of rows; a row's id is its index       *)
(* (auto-increment primary key).  Soft delete is the `deleted` flag        *)
(* (gorm.DeletedAt): GORM adds "deleted_at IS NULL" to every query built   *)
(* from a model (Find, First, Model(..).Scan, Updates, Delete) and to no   *)
(* Raw query.  Amounts are whole numbers, which float64 adds, subtracts    *)
(* and multiplies exactly; its quotients are rounded.                      *)
(***************************************************************************)
EXTENDS Integers, Sequences, FiniteSets, TLC

VARIABLES incomes, expenses, items, users, now, resp, issued, calls, main, minesites

vars == <<incomes, expenses, items, users, now, resp, issued, calls, main, minesites>>

\* ------------------------------------------------------------------ bounds
\* rows in the three record tables together
MaxRows == 2
\* last clock value of the record specification (time.Now() stamps)

\* ids of the users whose bearer tokens reach the protected handlers
UserIds == {1, 2}

\* ------------------------------------------------------------ status codes
StatusOK == 200
StatusBadRequest == 400
StatusUnauthorized == 401
StatusNotFound == 404
StatusInternalServerError == 500

\* ------------------------------------------------------------- enumerations
PaymentPaid == "paid"
PaymentUnpaid == "unpaid"
PaymentPartial == "partial"
PaymentStatuses == {PaymentPaid, PaymentUnpaid, PaymentPartial}

ExpenseCategories ==
    {"equipment", "labor", "chemicals", "fuel", "maintenance", "transport", "other"}

\* ------------------------------------------------------------- validation
ValidateRequired(value) == value # "" /\ value # " "

ValidatePositiveNumber(value) == value > 0

ValidateNonNegativeNumber(value) == value >= 0

\* time.Parse("2006-01-02", s): the layout accepts exactly YYYY-MM-DD; the
\* parsed day is kept as the number yyyymmdd, which orders as dates do.
ParseDate(s) ==
    CASE s = "2025-01-10" -> [ok |-> TRUE, day |-> 20250110]
      [] s = "2025-02-05" -> [ok |-> TRUE, day |-> 20250205]
      [] OTHER -> [ok |-> FALSE, day |-> 0]

\* strconv.ParseUint(idStr, 10, 32) of the {id} path segment
ParseUint(idStr) ==
    CASE idStr = "1" -> [ok |-> TRUE, n |-> 1]
      [] idStr = "2" -> [ok |-> TRUE, n |-> 2]
      [] idStr = "3" -> [ok |-> TRUE, n |-> 3]
      [] idStr = "4" -> [ok |-> TRUE, n |-> 4]
      [] OTHER -> [ok |-> FALSE, n |-> 0]

\* --------------------------------------------------------------- helpers
\* the orders in which a query may return the rows `ids` under ORDER BY a
\* column whose value in row i is keys[i] (descending when desc); rows with
\* equal keys come in any order
Ordered(ids, keys, desc) ==
    {s \in [1..Cardinality(ids) -> ids] :
        /\ \A i, j \in DOMAIN s : i # j => s[i] # s[j]
        /\ \A i \in DOMAIN s : i + 1 \in DOMAIN s =>
              IF desc THEN keys[s[i]] >= keys[s[i + 1]]
                      ELSE keys[s[i]] <= keys[s[i + 1]]}

RowsOf(tbl, s) == [i \in DOMAIN s |-> tbl[s[i]]]

\* SUM(..) of the values f[i] over the rows i \in DOMAIN f; COALESCE(.., 0)
RECURSIVE Sum(_)
Sum(f) ==
    IF DOMAIN f = {} THEN 0
    ELSE LET i == CHOOSE x \in DOMAIN f : TRUE
         IN f[i] + Sum([j \in DOMAIN f \ {i} |-> f[j]])

\* ---------------------------------------------------------------- float64
\* bits of an IEEE 754 double's significand
Float64Precision == 53

\* whole numbers below 2^105 as seven digits to the base 2^15, lowest first
LimbBits == 15
LimbBase == 2^LimbBits
Limbs == 1..7

\* a number below 2^31
Wide(n) ==
    [i \in Limbs |->
        CASE i = 1 -> n % LimbBase
          [] i = 2 -> (n \div LimbBase) % LimbBase
          [] i = 3 -> n \div (LimbBase * LimbBase)
          [] OTHER -> 0]

RECURSIVE AddCarry(_, _, _)
AddCarry(u, v, i) ==
    IF i = 0 THEN 0 ELSE (u[i] + v[i] + AddCarry(u, v, i - 1)) \div LimbBase

WideAdd(u, v) == [i \in Limbs |-> (u[i] + v[i] + AddCarry(u, v, i - 1)) % LimbBase]

\* u * n for n <= 2^15
RECURSIVE TimesCarry(_, _, _)
TimesCarry(u, n, i) ==
    IF i = 0 THEN 0 ELSE (u[i] * n + TimesCarry(u, n, i - 1)) \div LimbBase

WideTimes(u, n) == [i \in Limbs |-> (u[i] * n + TimesCarry(u, n, i - 1)) % LimbBase]

WideLess(u, v) ==
    \E i \in Limbs : u[i] < v[i] /\ \A j \in Limbs : j > i => u[j] = v[j]

WideLeq(u, v) == u = v \/ WideLess(u, v)

\* u * 2^k
WideShl(u, k) ==
    LET t == WideTimes(u, 2^(k % LimbBits))
    IN [i \in Limbs |-> IF i > k \div LimbBits THEN t[i - k \div LimbBits] ELSE 0]

\* u / 2^k, rounded down
WideShr(u, k) ==
    LET q == k \div LimbBits
        r == k % LimbBits
        at(i) == IF i \in Limbs THEN u[i] ELSE 0
    IN [i \in Limbs |-> at(i + q) \div 2^r + (at(i + q + 1) % 2^r) * 2^(LimbBits - r)]

\* u modulo 2^k
WideLow(u, k) ==
    [i \in Limbs |->
        IF i <= k \div LimbBits THEN u[i]
        ELSE IF i = k \div LimbBits + 1 THEN u[i] % 2^(k % LimbBits)
        ELSE 0]

\* the number of binary digits of u
WideBitLen(u) ==
    IF \A i \in Limbs : u[i] = 0 THEN 0
    ELSE LET top == CHOOSE i \in Limbs : u[i] # 0 /\ \A j \in Limbs : j > i => u[j] = 0
         IN LimbBits * (top - 1)
            + (CHOOSE k \in 1..LimbBits : 2^(k - 1) <= u[top] /\ u[top] < 2^k)

\* a double is [m, e]: a significand m of 53 binary digits and the exponent
\* e of its lowest digit; its value is m * 2^e.  Float64Round(u, e, more) is
\* the double nearest to the number whose digits are u at exponent e,
\* followed by further digits that are not all 0 when `more`; ties go to
\* the even significand.
Float64Round(u, e, more) ==
    IF WideBitLen(u) <= Float64Precision
    THEN [m |-> WideShl(u, Float64Precision - WideBitLen(u)),
          e |-> e - (Float64Precision - WideBitLen(u))]
    ELSE LET d == WideBitLen(u) - Float64Precision
             kept == WideShr(u, d)
             low == WideLow(u, d)
             half == WideShl(Wide(1), d - 1)
             up == \/ WideLess(half, low)
                   \/ low = half /\ (more \/ kept[1] % 2 = 1)
             m == IF up THEN WideAdd(kept, Wide(1)) ELSE kept
         IN IF WideBitLen(m) > Float64Precision
            THEN [m |-> WideShr(m, 1), e |-> e + d + 1]
            ELSE [m |-> m, e |-> e + d]

\* the remainder of the long division of a by b after i digits to the base
\* 2^15 behind the point
RECURSIVE DivRem(_, _, _)
DivRem(a, b, i) == IF i = 0 THEN a % b ELSE (DivRem(a, b, i - 1) * LimbBase) % b

\* a / b of two doubles that hold the whole numbers 0 < a, b < 2^15: the
\* quotient to five digits behind the point, rounded
Float64Div(a, b) ==
    Float64Round([j \in Limbs |->
                     IF j = 6 THEN a \div b
                     ELSE IF j <= 5 THEN (DivRem(a, b, 5 - j) * LimbBase) \div b
                     ELSE 0],
                 0 - 5 * LimbBits, DivRem(a, b, 5) # 0)

\* the zero value of a float64 field
Float64Zero == [m |-> Wide(0), e |-> 0]

\* the factor 100 left out
Float64Mul1(x) == x

\* x * 100 of a double x
Float64Mul100(x) == Float64Round(WideTimes(x.m, 100), x.e, FALSE)

\* the exact sum of the values of the doubles xs[i], as a number of units
\* of 2^e
RECURSIVE Float64Total(_, _)
Float64Total(xs, e) ==
    IF xs = <<>> THEN Wide(0)
    ELSE WideAdd(WideShl(Head(xs).m, Head(xs).e - e), Float64Total(Tail(xs), e))

\* db.Create(row): INSERT with the next value of the id sequence
GormCreate(tbl, row) == Append(tbl, [row EXCEPT !.id = Len(tbl) + 1])

\* db.Save(row): INSERT when the primary key is zero; otherwise UPDATE of all
\* columns WHERE id = row.id AND deleted_at IS NULL and, when that matches no
\* row, INSERT .. ON CONFLICT (id) DO UPDATE of all columns.  Either way the
\* stored row with that id becomes `row`, deleted_at included.
GormSave(tbl, row) ==
    IF row.id = 0 THEN GormCreate(tbl, row)
    ELSE IF row.id \in DOMAIN tbl THEN [tbl EXCEPT ![row.id] = row]
    ELSE tbl

\* a delete by id alone
GormSoftDeleteAnyOwner(tbl, id, userID) ==
    [i \in DOMAIN tbl |->
        IF i = id /\ ~tbl[i].deleted THEN [tbl[i] EXCEPT !.deleted = TRUE] ELSE tbl[i]]

\* db.Where("id = ? AND user_id = ?").Delete(&T{}): UPDATE .. SET deleted_at
\* on the live rows that match; matching no row is not an error
GormSoftDelete(tbl, id, userID) ==
    [i \in DOMAIN tbl |->
        IF i = id /\ tbl[i].user_id = userID /\ ~tbl[i].deleted
        THEN [tbl[i] EXCEPT !.deleted = TRUE]
        ELSE tbl[i]]

\* the lookup without the soft-delete condition
ScopedLiveOrDeleted(tbl, id, userID) ==
    {i \in DOMAIN tbl : i = id /\ tbl[i].user_id = userID}

\* WHERE id = ? AND user_id = ? (AND deleted_at IS NULL), as First() runs it:
\* the ids it can return; none means gorm.ErrRecordNotFound
ScopedLive(tbl, id, userID) ==
    {i \in DOMAIN tbl : i = id /\ tbl[i].user_id = userID /\ ~tbl[i].deleted}

\* ------------------------------------------------------ IncomeRepository
\* ids of the rows GetAll returns, before ordering
IncomeGetAllIds(userID) ==
    {i \in DOMAIN incomes : incomes[i].user_id = userID /\ ~incomes[i].deleted}

IncomeGetAll(userID) ==
    Ordered(IncomeGetAllIds(userID), [i \in DOMAIN incomes |-> incomes[i].date], TRUE)

\* a lookup by id alone
IncomeGetOneAnyOwner(id, userID) ==
    {i \in DOMAIN incomes : i = id /\ ~incomes[i].deleted}

IncomeGetOne(id, userID) == ScopedLive(incomes, id, userID)

\* the struct persisted as the handler filled it
IncomeDerivedAsGiven(income) == income

IncomeDerived(income) ==
    LET total == income.quantity * income.price_per_unit
    IN [income EXCEPT !.total_amount = total,
                      !.amount_due = total - income.amount_paid]

IncomeInsert(income) == GormCreate(incomes, IncomeDerived(income))

\* an UPDATE of the columns the body names, the derived ones left as stored
IncomeUpdateColumns(income) ==
    IF income.id \in DOMAIN incomes
    THEN GormSave(incomes, [income EXCEPT
                               !.total_amount = incomes[income.id].total_amount,
                               !.amount_due = incomes[income.id].amount_due])
    ELSE incomes

IncomeUpdate(income) == GormSave(incomes, IncomeDerived(income))

IncomeDelete(id, userID) == GormSoftDelete(incomes, id, userID)

IncomeGetByDateRangeIds(userID, startDay, endDay) ==
    {i \in DOMAIN incomes :
        /\ incomes[i].user_id = userID
        /\ incomes[i].date >= startDay /\ incomes[i].date <= endDay
        /\ ~incomes[i].deleted}

IncomeGetByDateRange(userID, startDay, endDay) ==
    Ordered(IncomeGetByDateRangeIds(userID, startDay, endDay),
            [i \in DOMAIN incomes |-> incomes[i].date], TRUE)

\* the same sum taken over every owner's rows
IncomeSummaryIdsAnyOwner(userID) ==
    {i \in DOMAIN incomes : ~incomes[i].deleted}

IncomeSummaryIds(userID) ==
    {i \in DOMAIN incomes : incomes[i].user_id = userID /\ ~incomes[i].deleted}

\* the rows summed whatever their payment status
IncomeReceivableIdsAnyStatus(userID) ==
    {i \in DOMAIN incomes : incomes[i].user_id = userID /\ ~incomes[i].deleted}

IncomeReceivableIds(userID) ==
    {i \in DOMAIN incomes :
        /\ incomes[i].user_id = userID
        /\ ~incomes[i].deleted
        /\ incomes[i].payment_status \in {PaymentUnpaid, PaymentPartial}}

IncomeGetFinancialSummary(userID) ==
    [total_income |-> Sum([i \in IncomeSummaryIds(userID) |-> incomes[i].total_amount]),
     total_receivables |-> Sum([i \in IncomeReceivableIds(userID) |-> incomes[i].amount_due])]

\* TO_CHAR(date, 'YYYY-MM') and EXTRACT(YEAR FROM date) of a day yyyymmdd
MonthOf(day) == day \div 100
YearOf(day) == day \div 10000

\* raw SQL: no deleted_at filter is added
IncomeMonthlyIds(userID, year) ==
    {i \in DOMAIN incomes :
        incomes[i].user_id = userID /\ YearOf(incomes[i].date) = year}

IncomeGetMonthlyData(userID, year) ==
    LET ids == IncomeMonthlyIds(userID, year)
        months == {MonthOf(incomes[i].date) : i \in ids}
    IN [m \in months |->
          Sum([i \in {j \in ids : MonthOf(incomes[j].date) = m} |-> incomes[i].total_amount])]

\* ----------------------------------------------------- ExpenseRepository
ExpenseGetAllIds(userID) ==
    {i \in DOMAIN expenses : expenses[i].user_id = userID /\ ~expenses[i].deleted}

ExpenseGetAll(userID) ==
    Ordered(ExpenseGetAllIds(userID), [i \in DOMAIN expenses |-> expenses[i].date], TRUE)

ExpenseGetOne(id, userID) == ScopedLive(expenses, id, userID)

ExpenseDerived(expense) ==
    [expense EXCEPT !.amount_due = expense.amount - expense.amount_paid]

ExpenseInsert(expense) == GormCreate(expenses, ExpenseDerived(expense))

ExpenseUpdate(expense) == GormSave(expenses, ExpenseDerived(expense))

ExpenseDelete(id, userID) == GormSoftDelete(expenses, id, userID)

ExpenseGetByDateRangeIds(userID, startDay, endDay) ==
    {i \in DOMAIN expenses :
        /\ expenses[i].user_id = userID
        /\ expenses[i].date >= startDay /\ expenses[i].date <= endDay
        /\ ~expenses[i].deleted}

ExpenseGetByDateRange(userID, startDay, endDay) ==
    Ordered(ExpenseGetByDateRangeIds(userID, startDay, endDay),
            [i \in DOMAIN expenses |-> expenses[i].date], TRUE)

\* raw SQL with its own "deleted_at IS NULL"
ExpenseBreakdownIds(userID) ==
    {i \in DOMAIN expenses : expenses[i].user_id = userID /\ ~expenses[i].deleted}

\* category -> SUM(amount), one entry per category present
ExpenseCategoryAmounts(userID) ==
    LET ids == ExpenseBreakdownIds(userID)
        cats == {expenses[i].category : i \in ids}
    IN [c \in cats |->
          Sum([i \in {j \in ids : expenses[j].category = c} |-> expenses[i].amount])]

\* raw SQL: no deleted_at filter is added
ExpenseMonthlyIds(userID, year) ==
    {i \in DOMAIN expenses :
        expenses[i].user_id = userID /\ YearOf(expenses[i].date) = year}

ExpenseGetMonthlyData(userID, year) ==
    LET ids == ExpenseMonthlyIds(userID, year)
        months == {MonthOf(expenses[i].date) : i \in ids}
    IN [m \in months |->
          Sum([i \in {j \in ids : MonthOf(expenses[j].date) = m} |-> expenses[i].amount])]

\* Model(&Expense{}): GORM adds the deleted_at filter
ExpenseSummaryIds(userID) ==
    {i \in DOMAIN expenses : expenses[i].user_id = userID /\ ~expenses[i].deleted}

ExpensePayableIds(userID) ==
    {i \in DOMAIN expenses :
        /\ expenses[i].user_id = userID
        /\ ~expenses[i].deleted
        /\ expenses[i].payment_status \in {PaymentUnpaid, PaymentPartial}}

\* the payables travel in the TotalReceivables field of the summary
ExpenseGetFinancialSummary(userID) ==
    [total_expenses |-> Sum([i \in ExpenseSummaryIds(userID) |-> expenses[i].amount]),
     total_receivables |-> Sum([i \in ExpensePayableIds(userID) |-> expenses[i].amount_due])]

\* --------------------------------------------------- InventoryRepository
\* collation rank of the item names in use, for ORDER BY name
NameRank(name) ==
    CASE name = "acid" -> 1
      [] name = "drill" -> 2
      [] name = "ore" -> 3
      [] OTHER -> 0

InventoryGetAllIds(userID) ==
    {i \in DOMAIN items : items[i].user_id = userID /\ ~items[i].deleted}

InventoryGetAll(userID) ==
    Ordered(InventoryGetAllIds(userID), [i \in DOMAIN items |-> NameRank(items[i].name)], FALSE)

InventoryGetOne(id, userID) == ScopedLive(items, id, userID)

InventoryInsert(item) == GormCreate(items, [item EXCEPT !.last_updated = now])

InventoryUpdate(item) == GormSave(items, [item EXCEPT !.last_updated = now])

InventoryDelete(id, userID) == GormSoftDelete(items, id, userID)

\* the items strictly below their minimum only
InventoryLowStockIdsBelow(userID) ==
    {i \in DOMAIN items :
        /\ items[i].user_id = userID
        /\ items[i].quantity < items[i].min_stock_level
        /\ ~items[i].deleted}

InventoryLowStockIds(userID) ==
    {i \in DOMAIN items :
        /\ items[i].user_id = userID
        /\ items[i].quantity <= items[i].min_stock_level
        /\ ~items[i].deleted}

InventoryGetLowStockItems(userID) ==
    Ordered(InventoryLowStockIds(userID), [i \in DOMAIN items |-> items[i].quantity], FALSE)

\* the map without its last_updated entry
InventoryUpdateQuantityOnly(id, userID, quantity) ==
    [i \in DOMAIN items |->
        IF i = id /\ items[i].user_id = userID /\ ~items[i].deleted
        THEN [items[i] EXCEPT !.quantity = quantity]
        ELSE items[i]]

\* Model(&InventoryItem{}).Where(..).Updates(map): the columns of the map
\* only, on the live rows that match; matching no row is not an error
InventoryUpdateQuantity(id, userID, quantity) ==
    [i \in DOMAIN items |->
        IF i = id /\ items[i].user_id = userID /\ ~items[i].deleted
        THEN [items[i] EXCEPT !.quantity = quantity, !.last_updated = now]
        ELSE items[i]]

\* ------------------------------------------------------------- requests
\* a *float64 of a request body: absent, or present with value v
Absent == [set |-> FALSE, v |-> 0]
Given(x) == [set |-> TRUE, v |-> x]

IncomeBase ==
    [body_ok |-> TRUE, date |-> "2025-01-10", mineral_type |-> "gold",
     quantity |-> 10, unit |-> "g", price_per_unit |-> 50, total_amount |-> 0,
     customer_name |-> "acme", payment_status |-> PaymentPartial,
     amount_paid |-> 300, amount_due |-> Absent]

\* the bodies sent to POST /income and PUT /income/{id}
IncomeRequests ==
    {IncomeBase,
     [IncomeBase EXCEPT !.date = "2025-02-05", !.amount_paid = 400,
                        !.payment_status = PaymentPaid,
                        !.total_amount = 999, !.amount_due = Given(7)],
     [IncomeBase EXCEPT !.quantity = 0],
     [IncomeBase EXCEPT !.body_ok = FALSE]}

ExpenseBase ==
    [body_ok |-> TRUE, date |-> "2025-01-10", category |-> "fuel",
     description |-> "diesel", amount |-> 200, supplier_name |-> "depot",
     payment_status |-> PaymentPartial, amount_paid |-> 50]

\* the bodies sent to POST /expense and PUT /expense/{id}
ExpenseRequests ==
    {ExpenseBase,
     [ExpenseBase EXCEPT !.date = "2025-02-05", !.category = "labor", !.amount = 100,
                         !.amount_paid = 60, !.payment_status = PaymentPaid],
     [ExpenseBase EXCEPT !.category = "bribes"],
     [ExpenseBase EXCEPT !.body_ok = FALSE]}

ItemBase ==
    [body_ok |-> TRUE, name |-> "drill", type |-> "supply", quantity |-> 5,
     unit |-> "pcs", min_stock_level |-> 5, current_value |-> 40]

\* the bodies sent to POST /inventory and PUT /inventory/{id}
ItemRequests ==
    {ItemBase,
     [ItemBase EXCEPT !.name = "ore", !.type = "mineral", !.quantity = 8,
                      !.min_stock_level = 3],
     [ItemBase EXCEPT !.quantity = -1],
     [ItemBase EXCEPT !.body_ok = FALSE]}

\* the bodies sent to PATCH /inventory/{id}/quantity
QuantityRequests ==
    {[body_ok |-> TRUE, quantity |-> 3],
     [body_ok |-> TRUE, quantity |-> -1],
     [body_ok |-> FALSE, quantity |-> 0]}

\* the {id} path segments sent
IdStrings == {"1", "2", "abc"}

\* the start_date / end_date query parameters sent
DateStrings == {"2025-01-10", "2025-02-05", ""}

\* the year query parameters sent
YearStrings == {"2025", "1999", ""}

\* field validation of the income handlers, in the order of the code
IncomeValid(req) ==
    /\ ValidateRequired(req.date)
    /\ ValidateRequired(req.mineral_type)
    /\ ValidatePositiveNumber(req.quantity)
    /\ ValidateRequired(req.unit)
    /\ ValidatePositiveNumber(req.price_per_unit)
    /\ ValidateRequired(req.customer_name)
    /\ ValidateNonNegativeNumber(req.amount_paid)
    /\ ParseDate(req.date).ok
    /\ req.payment_status \in PaymentStatuses

\* field validation of the expense handlers
ExpenseValid(req) ==
    /\ ValidateRequired(req.date)
    /\ ValidateRequired(req.category)
    /\ ValidateRequired(req.description)
    /\ ValidatePositiveNumber(req.amount)
    /\ ValidateRequired(req.supplier_name)
    /\ ValidateNonNegativeNumber(req.amount_paid)
    /\ ParseDate(req.date).ok
    /\ req.category \in ExpenseCategories
    /\ req.payment_status \in PaymentStatuses

\* field validation of the inventory handlers
ItemValid(req) ==
    /\ ValidateRequired(req.name)
    /\ ValidateRequired(req.type)
    /\ req.type \in {"mineral", "supply"}
    /\ ValidateNonNegativeNumber(req.quantity)
    /\ ValidateRequired(req.unit)
    /\ ValidateNonNegativeNumber(req.min_stock_level)
    /\ ValidateNonNegativeNumber(req.current_value)

\* ------------------------------------------------------------ responses
NoResponse == [op |-> "none", user |-> 0, id |-> "", code |-> 0, data |-> <<>>]

\* the JSON envelope written: the status code and the data (a list of rows)
Respond(op, userID, idStr, code, data) ==
    resp' = [op |-> op, user |-> userID, id |-> idStr, code |-> code, data |-> data]

RowCount == Len(incomes) + Len(expenses) + Len(items)

\* -------------------------------------------------------- IncomeHandler
\* the fields the create and update handlers copy from the body into the
\* struct, with the total and the amount due the handler itself derives
IncomeAssign(income, req) ==
    LET totalAmount == IF req.total_amount = 0
                       THEN req.quantity * req.price_per_unit
                       ELSE req.total_amount
        amountDue == IF req.amount_due.set THEN req.amount_due.v
                     ELSE totalAmount - req.amount_paid
    IN [income EXCEPT !.date = ParseDate(req.date).day,
                      !.quantity = req.quantity,
                      !.price_per_unit = req.price_per_unit,
                      !.total_amount = totalAmount,
                      !.payment_status = req.payment_status,
                      !.amount_paid = req.amount_paid,
                      !.amount_due = amountDue]

NewIncome(userID) ==
    [id |-> 0, user_id |-> userID, date |-> 0, quantity |-> 0, price_per_unit |-> 0,
     total_amount |-> 0, payment_status |-> "", amount_paid |-> 0, amount_due |-> 0,
     deleted |-> FALSE]

GetAllIncomes(userID) ==
    /\ \E s \in IncomeGetAll(userID) :
          Respond("GetAllIncomes", userID, "", StatusOK, RowsOf(incomes, s))
    /\ UNCHANGED <<incomes, expenses, items, users, now, issued>>

GetIncome(userID, idStr) ==
    /\ IF ~ParseUint(idStr).ok
       THEN Respond("GetIncome", userID, idStr, StatusBadRequest, <<>>)
       ELSE IF IncomeGetOne(ParseUint(idStr).n, userID) = {}
       THEN Respond("GetIncome", userID, idStr, StatusNotFound, <<>>)
       ELSE \E i \in IncomeGetOne(ParseUint(idStr).n, userID) :
               Respond("GetIncome", userID, idStr, StatusOK, <<incomes[i]>>)
    /\ UNCHANGED <<incomes, expenses, items, users, now, issued>>

CreateIncome(userID, req) ==
    /\ IF ~req.body_ok \/ ~IncomeValid(req)
       THEN /\ Respond("CreateIncome", userID, "", StatusBadRequest, <<>>)
            /\ UNCHANGED incomes
       ELSE /\ RowCount < MaxRows
            /\ incomes' = IncomeInsert(IncomeAssign(NewIncome(userID), req))
            /\ Respond("CreateIncome", userID, "", StatusOK, <<incomes'[Len(incomes')]>>)
    /\ UNCHANGED <<expenses, items, users, now, issued>>

UpdateIncome(userID, idStr, req) ==
    /\ IF ~ParseUint(idStr).ok \/ ~req.body_ok
       THEN /\ Respond("UpdateIncome", userID, idStr, StatusBadRequest, <<>>)
            /\ UNCHANGED incomes
       ELSE IF IncomeGetOne(ParseUint(idStr).n, userID) = {}
       THEN /\ Respond("UpdateIncome", userID, idStr, StatusNotFound, <<>>)
            /\ UNCHANGED incomes
       ELSE IF ~IncomeValid(req)
       THEN /\ Respond("UpdateIncome", userID, idStr, StatusBadRequest, <<>>)
            /\ UNCHANGED incomes
       ELSE \E i \in IncomeGetOne(ParseUint(idStr).n, userID) :
               /\ incomes' = IncomeUpdate(IncomeAssign(incomes[i], req))
               /\ Respond("UpdateIncome", userID, idStr, StatusOK, <<incomes'[i]>>)
    /\ UNCHANGED <<expenses, items, users, now, issued>>

DeleteIncome(userID, idStr) ==
    /\ IF ~ParseUint(idStr).ok
       THEN /\ Respond("DeleteIncome", userID, idStr, StatusBadRequest, <<>>)
            /\ UNCHANGED incomes
       ELSE /\ incomes' = IncomeDelete(ParseUint(idStr).n, userID)
            /\ Respond("DeleteIncome", userID, idStr, StatusOK, <<>>)
    /\ UNCHANGED <<expenses, items, users, now, issued>>

GetIncomeByDateRange(userID, startDate, endDate) ==
    /\ IF startDate = "" \/ endDate = ""
       THEN Respond("GetIncomeByDateRange", userID, "", StatusBadRequest, <<>>)
       ELSE \E s \in IncomeGetByDateRange(userID, ParseDate(startDate).day,
                                          ParseDate(endDate).day) :
               Respond("GetIncomeByDateRange", userID, "", StatusOK, RowsOf(incomes, s))
    /\ UNCHANGED <<incomes, expenses, items, users, now, issued>>

\* ------------------------------------------------------- ExpenseHandler
ExpenseAssign(expense, req) ==
    [expense EXCEPT !.date = ParseDate(req.date).day,
                    !.category = req.category,
                    !.amount = req.amount,
                    !.payment_status = req.payment_status,
                    !.amount_paid = req.amount_paid]

NewExpense(userID) ==
    [id |-> 0, user_id |-> userID, date |-> 0, category |-> "", amount |-> 0,
     payment_status |-> "", amount_paid |-> 0, amount_due |-> 0, deleted |-> FALSE]

GetAllExpenses(userID) ==
    /\ \E s \in ExpenseGetAll(userID) :
          Respond("GetAllExpenses", userID, "", StatusOK, RowsOf(expenses, s))
    /\ UNCHANGED <<incomes, expenses, items, users, now, issued>>

GetExpense(userID, idStr) ==
    /\ IF ~ParseUint(idStr).ok
       THEN Respond("GetExpense", userID, idStr, StatusBadRequest, <<>>)
       ELSE IF ExpenseGetOne(ParseUint(idStr).n, userID) = {}
       THEN Respond("GetExpense", userID, idStr, StatusNotFound, <<>>)
       ELSE \E i \in ExpenseGetOne(ParseUint(idStr).n, userID) :
               Respond("GetExpense", userID, idStr, StatusOK, <<expenses[i]>>)
    /\ UNCHANGED <<incomes, expenses, items, users, now, issued>>

CreateExpense(userID, req) ==
    /\ IF ~req.body_ok \/ ~ExpenseValid(req)
       THEN /\ Respond("CreateExpense", userID, "", StatusBadRequest, <<>>)
            /\ UNCHANGED expenses
       ELSE /\ RowCount < MaxRows
            /\ expenses' = ExpenseInsert(ExpenseAssign(NewExpense(userID), req))
            /\ Respond("CreateExpense", userID, "", StatusOK, <<expenses'[Len(expenses')]>>)
    /\ UNCHANGED <<incomes, items, users, now, issued>>

\* the update handler also sets AmountDue = Amount - AmountPaid on the struct
UpdateExpense(userID, idStr, req) ==
    /\ IF ~ParseUint(idStr).ok \/ ~req.body_ok
       THEN /\ Respond("UpdateExpense", userID, idStr, StatusBadRequest, <<>>)
            /\ UNCHANGED expenses
       ELSE IF ExpenseGetOne(ParseUint(idStr).n, userID) = {}
       THEN /\ Respond("UpdateExpense", userID, idStr, StatusNotFound, <<>>)
            /\ UNCHANGED expenses
       ELSE IF ~ExpenseValid(req)
       THEN /\ Respond("UpdateExpense", userID, idStr, StatusBadRequest, <<>>)
            /\ UNCHANGED expenses
       ELSE \E i \in ExpenseGetOne(ParseUint(idStr).n, userID) :
               /\ expenses' = ExpenseUpdate(
                     [ExpenseAssign(expenses[i], req) EXCEPT
                         !.amount_due = req.amount - req.amount_paid])
               /\ Respond("UpdateExpense", userID, idStr, StatusOK, <<expenses'[i]>>)
    /\ UNCHANGED <<incomes, items, users, now, issued>>

DeleteExpense(userID, idStr) ==
    /\ IF ~ParseUint(idStr).ok
       THEN /\ Respond("DeleteExpense", userID, idStr, StatusBadRequest, <<>>)
            /\ UNCHANGED expenses
       ELSE /\ expenses' = ExpenseDelete(ParseUint(idStr).n, userID)
            /\ Respond("DeleteExpense", userID, idStr, StatusOK, <<>>)
    /\ UNCHANGED <<incomes, items, users, now, issued>>

GetExpenseByDateRange(userID, startDate, endDate) ==
    /\ IF startDate = "" \/ endDate = ""
       THEN Respond("GetExpenseByDateRange", userID, "", StatusBadRequest, <<>>)
       ELSE \E s \in ExpenseGetByDateRange(userID, ParseDate(startDate).day,
                                           ParseDate(endDate).day) :
               Respond("GetExpenseByDateRange", userID, "", StatusOK, RowsOf(expenses, s))
    /\ UNCHANGED <<incomes, expenses, items, users, now, issued>>

\* the quotient a / b * 100 of the profit margin, written as the fraction
\* (a * 100) / b whose value float64 rounds
Percent(a, b) == [num |-> a * 100, den |-> b]
ZeroPercent == [num |-> 0, den |-> 1]

\* ExpenseRepository.GetCategoryBreakdown: the grouped rows in ORDER BY
\* amount DESC, each with its share of the grand total (left 0 when the
\* total is not positive)
ExpenseGetCategoryBreakdown(userID) ==
    LET amounts == ExpenseCategoryAmounts(userID)
        totalAmount == Sum(amounts)
    IN {[i \in DOMAIN s |->
            [category |-> s[i], amount |-> amounts[s[i]],
             percentage |-> IF totalAmount > 0
                            THEN Float64Mul100(Float64Div(amounts[s[i]], totalAmount))
                            ELSE Float64Zero]] :
        s \in Ordered(DOMAIN amounts, amounts, TRUE)}

GetExpenseCategoryBreakdown(userID) ==
    /\ \E b \in ExpenseGetCategoryBreakdown(userID) :
          Respond("GetExpenseCategoryBreakdown", userID, "", StatusOK, b)
    /\ UNCHANGED <<incomes, expenses, items, users, now, issued>>

\* ----------------------------------------------------- InventoryHandler
ItemAssign(item, req) ==
    [item EXCEPT !.name = req.name,
                 !.type = req.type,
                 !.quantity = req.quantity,
                 !.unit = req.unit,
                 !.min_stock_level = req.min_stock_level,
                 !.current_value = req.current_value]

NewItem(userID) ==
    [id |-> 0, user_id |-> userID, name |-> "", type |-> "", quantity |-> 0,
     unit |-> "", min_stock_level |-> 0, current_value |-> 0, last_updated |-> 0,
     deleted |-> FALSE]

GetAllInventory(userID) ==
    /\ \E s \in InventoryGetAll(userID) :
          Respond("GetAllInventory", userID, "", StatusOK, RowsOf(items, s))
    /\ UNCHANGED <<incomes, expenses, items, users, now, issued>>

GetInventoryItem(userID, idStr) ==
    /\ IF ~ParseUint(idStr).ok
       THEN Respond("GetInventoryItem", userID, idStr, StatusBadRequest, <<>>)
       ELSE IF InventoryGetOne(ParseUint(idStr).n, userID) = {}
       THEN Respond("GetInventoryItem", userID, idStr, StatusNotFound, <<>>)
       ELSE \E i \in InventoryGetOne(ParseUint(idStr).n, userID) :
               Respond("GetInventoryItem", userID, idStr, StatusOK, <<items[i]>>)
    /\ UNCHANGED <<incomes, expenses, items, users, now, issued>>

CreateInventoryItem(userID, req) ==
    /\ IF ~req.body_ok \/ ~ItemValid(req)
       THEN /\ Respond("CreateInventoryItem", userID, "", StatusBadRequest, <<>>)
            /\ UNCHANGED items
       ELSE /\ RowCount < MaxRows
            /\ items' = InventoryInsert(ItemAssign(NewItem(userID), req))
            /\ Respond("CreateInventoryItem", userID, "", StatusOK, <<items'[Len(items')]>>)
    /\ UNCHANGED <<incomes, expenses, users, now, issued>>

UpdateInventoryItem(userID, idStr, req) ==
    /\ IF ~ParseUint(idStr).ok \/ ~req.body_ok
       THEN /\ Respond("UpdateInventoryItem", userID, idStr, StatusBadRequest, <<>>)
            /\ UNCHANGED items
       ELSE IF InventoryGetOne(ParseUint(idStr).n, userID) = {}
       THEN /\ Respond("UpdateInventoryItem", userID, idStr, StatusNotFound, <<>>)
            /\ UNCHANGED items
       ELSE IF ~ItemValid(req)
       THEN /\ Respond("UpdateInventoryItem", userID, idStr, StatusBadRequest, <<>>)
            /\ UNCHANGED items
       ELSE \E i \in InventoryGetOne(ParseUint(idStr).n, userID) :
               /\ items' = InventoryUpdate(ItemAssign(items[i], req))
               /\ Respond("UpdateInventoryItem", userID, idStr, StatusOK, <<items'[i]>>)
    /\ UNCHANGED <<incomes, expenses, users, now, issued>>

DeleteInventoryItem(userID, idStr) ==
    /\ IF ~ParseUint(idStr).ok
       THEN /\ Respond("DeleteInventoryItem", userID, idStr, StatusBadRequest, <<>>)
            /\ UNCHANGED items
       ELSE /\ items' = InventoryDelete(ParseUint(idStr).n, userID)
            /\ Respond("DeleteInventoryItem", userID, idStr, StatusOK, <<>>)
    /\ UNCHANGED <<incomes, expenses, users, now, issued>>

GetLowStockItems(userID) ==
    /\ \E s \in InventoryGetLowStockItems(userID) :
          Respond("GetLowStockItems", userID, "", StatusOK, RowsOf(items, s))
    /\ UNCHANGED <<incomes, expenses, items, users, now, issued>>

\* the same handler with the sign of the quantity checked after the update
UpdateQuantityThenCheck(userID, idStr, req) ==
    /\ IF ~ParseUint(idStr).ok \/ ~req.body_ok
       THEN /\ Respond("UpdateQuantity", userID, idStr, StatusBadRequest, <<>>)
            /\ UNCHANGED items
       ELSE /\ items' = InventoryUpdateQuantity(ParseUint(idStr).n, userID, req.quantity)
            /\ IF ~ValidateNonNegativeNumber(req.quantity)
               THEN Respond("UpdateQuantity", userID, idStr, StatusBadRequest, <<>>)
               ELSE IF ScopedLive(items', ParseUint(idStr).n, userID) = {}
               THEN Respond("UpdateQuantity", userID, idStr,
                            StatusInternalServerError, <<>>)
               ELSE Respond("UpdateQuantity", userID, idStr, StatusOK,
                            <<items'[ParseUint(idStr).n]>>)
    /\ UNCHANGED <<incomes, expenses, users, now, issued>>

\* PATCH /inventory/{id}/quantity: the update, then a second query that
\* fetches the item for the response
UpdateQuantity(userID, idStr, req) ==
    /\ IF ~ParseUint(idStr).ok \/ ~req.body_ok
          \/ ~ValidateNonNegativeNumber(req.quantity)
       THEN /\ Respond("UpdateQuantity", userID, idStr, StatusBadRequest, <<>>)
            /\ UNCHANGED items
       ELSE /\ items' = InventoryUpdateQuantity(ParseUint(idStr).n, userID, req.quantity)
            /\ IF ScopedLive(items', ParseUint(idStr).n, userID) = {}
               THEN Respond("UpdateQuantity", userID, idStr,
                            StatusInternalServerError, <<>>)
               ELSE Respond("UpdateQuantity", userID, idStr, StatusOK,
                            <<items'[ParseUint(idStr).n]>>)
    /\ UNCHANGED <<incomes, expenses, users, now, issued>>

\* ----------------------------------------------------- AnalyticsHandler
\* time.Now().Year(), the default of the year parameter
CurrentYear == 2025

\* strconv.Atoi of the year parameter
Atoi(str) ==
    CASE str = "2025" -> [ok |-> TRUE, n |-> 2025]
      [] str = "1999" -> [ok |-> TRUE, n |-> 1999]
      [] OTHER -> [ok |-> FALSE, n |-> 0]

\* the income total reported as the profit
FinancialSummaryGross(userID) ==
    LET incomeSummary == IncomeGetFinancialSummary(userID)
        expenseSummary == ExpenseGetFinancialSummary(userID)
    IN [total_income |-> incomeSummary.total_income,
        total_expenses |-> expenseSummary.total_expenses,
        net_profit |-> incomeSummary.total_income,
        total_receivables |-> incomeSummary.total_receivables,
        total_payables |-> expenseSummary.total_receivables,
        profit_margin |-> IF incomeSummary.total_income > 0
                          THEN Percent(incomeSummary.total_income,
                                       incomeSummary.total_income)
                          ELSE ZeroPercent]

FinancialSummary(userID) ==
    LET incomeSummary == IncomeGetFinancialSummary(userID)
        expenseSummary == ExpenseGetFinancialSummary(userID)
        netProfit == incomeSummary.total_income - expenseSummary.total_expenses
    IN [total_income |-> incomeSummary.total_income,
        total_expenses |-> expenseSummary.total_expenses,
        net_profit |-> netProfit,
        total_receivables |-> incomeSummary.total_receivables,
        total_payables |-> expenseSummary.total_receivables,
        profit_margin |-> IF incomeSummary.total_income > 0
                          THEN Percent(netProfit, incomeSummary.total_income)
                          ELSE ZeroPercent]

GetFinancialSummary(userID) ==
    /\ Respond("GetFinancialSummary", userID, "", StatusOK, <<FinancialSummary(userID)>>)
    /\ UNCHANGED <<incomes, expenses, items, users, now, issued>>

\* the expense sums joined onto the months of the income rollup only
MonthlyMergeIncomeMonths(userID, year) ==
    LET incomeData == IncomeGetMonthlyData(userID, year)
        expenseData == ExpenseGetMonthlyData(userID, year)
    IN [m \in DOMAIN incomeData |->
          LET inc == incomeData[m]
              exp == IF m \in DOMAIN expenseData THEN expenseData[m] ELSE 0
          IN [month |-> m, income |-> inc, expenses |-> exp, profit |-> inc - exp]]

\* the month-keyed merge of the two rollups
MonthlyMerge(userID, year) ==
    LET incomeData == IncomeGetMonthlyData(userID, year)
        expenseData == ExpenseGetMonthlyData(userID, year)
    IN [m \in DOMAIN incomeData \cup DOMAIN expenseData |->
          LET inc == IF m \in DOMAIN incomeData THEN incomeData[m] ELSE 0
              exp == IF m \in DOMAIN expenseData THEN expenseData[m] ELSE 0
          IN [month |-> m, income |-> inc, expenses |-> exp, profit |-> inc - exp]]

\* the entries come out in the iteration order of a Go map: any order
GetMonthlyData(userID, yearStr) ==
    /\ IF yearStr # "" /\ (~Atoi(yearStr).ok \/ Atoi(yearStr).n < 2000
                           \/ Atoi(yearStr).n > 3000)
       THEN Respond("GetMonthlyData", userID, yearStr, StatusBadRequest, <<>>)
       ELSE LET year == IF yearStr = "" THEN CurrentYear ELSE Atoi(yearStr).n
                merged == MonthlyMerge(userID, year)
            IN \E s \in Ordered(DOMAIN merged, [m \in DOMAIN merged |-> 0], TRUE) :
                  Respond("GetMonthlyData", userID, yearStr, StatusOK, RowsOf(merged, s))
    /\ UNCHANGED <<incomes, expenses, items, users, now, issued>>

\* ------------------------------------------------------- UserRepository
\* the minutes an issued one-time code stays valid
OTPWindow == 10
\* last minute of the clock of the account specification
MaxTime == 11
\* last minute of the clock of the router specification
MaxUptime == 1441
\* bcrypt applications a stored password has gone through at most
MaxHashDepth == 2

\* a password string: the text s under n applications of bcrypt (n = 0 is
\* the text itself).  bcrypt is taken as injective: two hashes compare equal
\* exactly when they hash the same string.
Plain(s) == [s |-> s, n |-> 0]

HashPassword(password) == [password EXCEPT !.n = @ + 1]

\* len(password) of the password texts in use
PasswordLen(s) ==
    CASE s = "secret1" -> 7
      [] s = "secret2" -> 7
      [] s = "short" -> 5
      [] OTHER -> 0

ValidatePassword(password) == PasswordLen(password) >= 6

\* the e-mail regular expression, on the addresses in use
ValidateEmail(email) == email \in {"a@x.io", "b@x.io"}

\* WHERE email = ? (AND deleted_at IS NULL)
LiveByEmail(tbl, email) == {i \in DOMAIN tbl : tbl[i].email = email /\ ~tbl[i].deleted}

UserGetByEmail(email) == LiveByEmail(users, email)

UserGetOne(id) == {i \in DOMAIN users : i = id /\ ~users[i].deleted}

\* a users table with no index on email
UserInsertUnindexed(user) ==
    [err |-> FALSE,
     users |-> GormCreate(users, [user EXCEPT !.password = HashPassword(@)])]

\* the unique index on email refuses a second row with the address
UserInsert(user) ==
    IF \E i \in DOMAIN users : users[i].email = user.email
    THEN [err |-> TRUE, users |-> users]
    ELSE [err |-> FALSE,
          users |-> GormCreate(users, [user EXCEPT !.password = HashPassword(@)])]

UserUpdate(user) ==
    GormSave(users, IF user.password # Plain("")
                    THEN [user EXCEPT !.password = HashPassword(@)]
                    ELSE user)

UserResetPassword(userID, newPassword) ==
    [i \in DOMAIN users |->
        IF i = userID /\ ~users[i].deleted
        THEN [users[i] EXCEPT !.password = HashPassword(newPassword)]
        ELSE users[i]]

\* bcrypt.CompareHashAndPassword: an error, hence false, when the stored
\* value is not a hash
PasswordMatches(user, plainText) ==
    user.password.n >= 1 /\ user.password = HashPassword(plainText)

\* the codes crypto/rand draws
generateOTP == {"111111", "222222"}

GenerateAndSaveOTP(email, otp) ==
    [i \in DOMAIN users |->
        IF i \in LiveByEmail(users, email)
        THEN [users[i] EXCEPT !.otp_code = otp,
                              !.otp_expires_at = Given(now + OTPWindow)]
        ELSE users[i]]

\* a code one minute longer in force: otp_expires_at >= now
VerifyOTPAtInclusive(tbl, t, email, otp) ==
    \E i \in LiveByEmail(tbl, email) :
       /\ tbl[i].otp_code = otp
       /\ tbl[i].otp_expires_at.set
       /\ tbl[i].otp_expires_at.v >= t

\* WHERE email = ? AND otp_code = ? AND otp_expires_at > ? at time t: a NULL
\* expiry compares as not greater
VerifyOTPAt(tbl, t, email, otp) ==
    \E i \in LiveByEmail(tbl, email) :
       /\ tbl[i].otp_code = otp
       /\ tbl[i].otp_expires_at.set
       /\ tbl[i].otp_expires_at.v > t

VerifyOTP(email, otp) == VerifyOTPAt(users, now, email, otp)

\* the write of ResetPasswordWithOTP
ResetWrite(email, newPassword) ==
    [i \in DOMAIN users |->
        IF i \in LiveByEmail(users, email)
        THEN [users[i] EXCEPT !.password = HashPassword(newPassword),
                              !.otp_code = "",
                              !.otp_expires_at = Absent]
        ELSE users[i]]

\* the write done whatever the verification says
ResetPasswordWithOTPUnverified(email, otp, newPassword) ==
    [err |-> ~VerifyOTP(email, otp), users |-> ResetWrite(email, Plain(newPassword))]

\* the password written and the code left in place
ResetPasswordWithOTPKeepingCode(email, otp, newPassword) ==
    IF ~VerifyOTP(email, otp)
    THEN [err |-> TRUE, users |-> users]
    ELSE [err |-> FALSE,
          users |-> UserResetPassword(CHOOSE i \in LiveByEmail(users, email) : TRUE,
                                      Plain(newPassword))]

ResetPasswordWithOTP(email, otp, newPassword) ==
    IF ~VerifyOTP(email, otp)
    THEN [err |-> TRUE, users |-> users]
    ELSE [err |-> FALSE, users |-> ResetWrite(email, Plain(newPassword))]

\* ---------------------------------------------------------- bearer tokens
\* minutes a token lives: ExpiresAt is time.Now() plus 24 hours of 60 minutes
TokenLife == 1440

\* the key the server signs and verifies with
jwtSecret == "your-super-secret-jwt-key-change-this-in-production"

\* fmt.Sprintf("%d", user.ID)
FormatUint(n) ==
    CASE n = 1 -> "1"
      [] n = 2 -> "2"
      [] n = 3 -> "3"
      [] n = 4 -> "4"
      [] OTHER -> "0"

\* a signed token: its claims and the key of its signature
GenerateJWT(userID, email, role) ==
    [key |-> jwtSecret, user_id |-> userID, email |-> email, role |-> role,
     iat |-> now, exp |-> now + TokenLife]

GenerateToken(userID, email, role) == GenerateJWT(userID, email, role)

\* jwt.ParseWithClaims under jwtSecret: the signature must verify under the
\* key, and the time must be before exp
ValidateJWT(tokenString) ==
    [ok |-> tokenString.key = jwtSecret /\ now < tokenString.exp,
     claims |-> tokenString]

\* ---------------------------------------------------------- AuthHandler
RoleStandard == "standard"
RoleAdmin == "admin"
AdminCode == "MINING2025ADMIN"

SignupBase ==
    [body_ok |-> TRUE, email |-> "a@x.io", name |-> "amina", password |-> "secret1",
     admin_code |-> ""]

\* the bodies sent to POST /auth/signup
SignupRequests ==
    {SignupBase,
     [SignupBase EXCEPT !.email = "b@x.io", !.password = "secret2",
                        !.admin_code = AdminCode],
     [SignupBase EXCEPT !.email = "b@x.io", !.admin_code = "LETMEIN"],
     [SignupBase EXCEPT !.password = "short"],
     [SignupBase EXCEPT !.body_ok = FALSE]}

\* the bodies sent to POST /auth/login
LoginRequests ==
    [body_ok : {TRUE}, email : {"a@x.io", "b@x.io"}, password : {"secret1", "secret2"}]
    \cup {[body_ok |-> FALSE, email |-> "", password |-> ""]}

\* the bodies sent to POST /auth/forgot-password
ForgotPasswordRequests ==
    [body_ok : {TRUE}, email : {"a@x.io", "b@x.io", "nobody"}]
    \cup {[body_ok |-> FALSE, email |-> ""]}

\* the codes a caller presents
PresentedCodes == generateOTP \cup {""}

\* the bodies sent to POST /auth/reset-password
ResetPasswordRequests ==
    [body_ok : {TRUE}, email : {"a@x.io", "b@x.io"}, otp : generateOTP,
     new_password : {"secret1", "secret2"}]
    \cup {[body_ok |-> TRUE, email |-> "a@x.io", otp |-> "", new_password |-> "secret2"],
          [body_ok |-> TRUE, email |-> "a@x.io", otp |-> "111111", new_password |-> "short"],
          [body_ok |-> FALSE, email |-> "", otp |-> "", new_password |-> ""]}

\* the bodies sent to PUT /profile
ProfileRequests ==
    {[body_ok |-> TRUE, name |-> "amina k"],
     [body_ok |-> TRUE, name |-> ""],
     [body_ok |-> FALSE, name |-> ""]}

\* the passwords handed to UserRepository.Update and ResetPassword by a
\* caller inside the process
CallPasswords == {"", "secret2"}

\* ids of the users whose profile and password get rewritten
Editors == {1}

\* the profile fields the handlers answer with: never the password
ProfileOf(user) ==
    [id |-> user.id, email |-> user.email, name |-> user.name, role |-> user.role]

NoIssue == [set |-> FALSE, code |-> "", at |-> 0]

Login(req) ==
    /\ IF ~req.body_ok \/ ~ValidateEmail(req.email) \/ ~ValidatePassword(req.password)
       THEN Respond("Login", 0, req.email, StatusBadRequest, <<>>)
       ELSE IF UserGetByEmail(req.email) = {}
       THEN Respond("Login", 0, req.email, StatusUnauthorized, <<>>)
       ELSE \E i \in UserGetByEmail(req.email) :
               IF ~PasswordMatches(users[i], Plain(req.password))
               THEN Respond("Login", 0, req.email, StatusUnauthorized, <<>>)
               ELSE Respond("Login", 0, req.email, StatusOK,
                            <<[token |-> GenerateToken(FormatUint(users[i].id),
                                                       users[i].email, users[i].role),
                               user |-> ProfileOf(users[i])]>>)
    /\ UNCHANGED <<incomes, expenses, items, users, now, issued>>

Signup(req) ==
    /\ IF \/ ~req.body_ok
          \/ ~ValidateEmail(req.email)
          \/ ~ValidateRequired(req.name)
          \/ ~ValidatePassword(req.password)
          \/ UserGetByEmail(req.email) # {}
          \/ req.admin_code \notin {"", AdminCode}
       THEN /\ Respond("Signup", 0, req.email, StatusBadRequest, <<>>)
            /\ UNCHANGED <<users, issued>>
       ELSE LET role == IF req.admin_code = AdminCode THEN RoleAdmin ELSE RoleStandard
                user == [id |-> 0, email |-> req.email, name |-> req.name,
                         password |-> Plain(req.password), role |-> role,
                         otp_code |-> "", otp_expires_at |-> Absent,
                         deleted |-> FALSE]
                done == UserInsert(user)
            IN IF done.err
               THEN /\ Respond("Signup", 0, req.email, StatusInternalServerError, <<>>)
                    /\ UNCHANGED <<users, issued>>
               ELSE /\ users' = done.users
                    /\ issued' = Append(issued, NoIssue)
                    /\ Respond("Signup", 0, req.email, StatusOK,
                               <<[token |-> GenerateToken(FormatUint(Len(done.users)),
                                                          user.email, user.role),
                                  user |-> ProfileOf(users'[Len(users')])]>>)
    /\ UNCHANGED <<incomes, expenses, items, now>>

\* issued records, per user, the code GenerateAndSaveOTP last returned for
\* the user and the minute it did, until a reset consumes the code
ForgotPassword(req) ==
    /\ IF ~req.body_ok \/ ~ValidateEmail(req.email)
       THEN /\ Respond("ForgotPassword", 0, req.email, StatusBadRequest, <<>>)
            /\ UNCHANGED <<users, issued>>
       ELSE IF UserGetByEmail(req.email) = {}
       THEN /\ Respond("ForgotPassword", 0, req.email, StatusOK, <<>>)
            /\ UNCHANGED <<users, issued>>
       ELSE \E otp \in generateOTP :
               /\ users' = GenerateAndSaveOTP(req.email, otp)
               /\ issued' = [i \in DOMAIN issued |->
                                IF i \in LiveByEmail(users, req.email)
                                THEN [set |-> TRUE, code |-> otp, at |-> now]
                                ELSE issued[i]]
               /\ Respond("ForgotPassword", 0, req.email, StatusOK, <<>>)
    /\ UNCHANGED <<incomes, expenses, items, now>>

ResetPassword(req) ==
    /\ IF \/ ~req.body_ok
          \/ ~ValidateEmail(req.email)
          \/ ~ValidateRequired(req.otp)
          \/ ~ValidatePassword(req.new_password)
       THEN /\ Respond("ResetPassword", 0, req.email, StatusBadRequest, <<>>)
            /\ UNCHANGED <<users, issued>>
       ELSE LET done == ResetPasswordWithOTP(req.email, req.otp, req.new_password)
            IN IF done.err
               THEN /\ Respond("ResetPassword", 0, req.email, StatusBadRequest, <<>>)
                    /\ UNCHANGED <<users, issued>>
               ELSE /\ users' = done.users
                    /\ issued' = [i \in DOMAIN issued |->
                                     IF i \in LiveByEmail(users, req.email)
                                     THEN NoIssue ELSE issued[i]]
                    /\ Respond("ResetPassword", 0, req.email, StatusOK, <<>>)
    /\ UNCHANGED <<incomes, expenses, items, now>>

GetProfile(userID) ==
    /\ IF UserGetOne(userID) = {}
       THEN Respond("GetProfile", userID, "", StatusNotFound, <<>>)
       ELSE Respond("GetProfile", userID, "", StatusOK, <<ProfileOf(users[userID])>>)
    /\ UNCHANGED <<incomes, expenses, items, users, now, issued>>

\* the struct GetOne loaded, stored hash included, goes to Update with the
\* new name
UpdateProfile(userID, req) ==
    /\ IF ~req.body_ok \/ ~ValidateRequired(req.name)
       THEN /\ Respond("UpdateProfile", userID, "", StatusBadRequest, <<>>)
            /\ UNCHANGED users
       ELSE IF UserGetOne(userID) = {}
       THEN /\ Respond("UpdateProfile", userID, "", StatusNotFound, <<>>)
            /\ UNCHANGED users
       ELSE /\ users[userID].password.n < MaxHashDepth
            /\ users' = UserUpdate([users[userID] EXCEPT !.name = req.name])
            /\ Respond("UpdateProfile", userID, "", StatusOK, <<ProfileOf(users'[userID])>>)
    /\ UNCHANGED <<incomes, expenses, items, now, issued>>

\* UserRepository.Update called by code of the process with a loaded user
\* whose Password field it set to a new password, or left empty
CallUpdate(userID, password) ==
    /\ userID \in UserGetOne(userID)
    /\ users' = UserUpdate([users[userID] EXCEPT !.password = Plain(password)])
    /\ Respond("Update", userID, "", 0, <<>>)
    /\ UNCHANGED <<incomes, expenses, items, now, issued>>

\* UserRepository.ResetPassword called by code of the process
CallResetPassword(userID, newPassword) ==
    /\ users' = UserResetPassword(userID, Plain(newPassword))
    /\ Respond("ResetPassword(id)", userID, "", 0, <<>>)
    /\ UNCHANGED <<incomes, expenses, items, now, issued>>

\* ------------------------------------------- requests served concurrently
\* net/http serves every request on a goroutine of its own, and a handler
\* runs its statements against the store one after another with no
\* transaction around them: the statements of two requests interleave
Procs == {1, 2}

\* calls[p] is the request goroutine p is serving: where the handler stands
\* (pc), the decoded body (req) and the status it answered with (code)
NoRequest == [body_ok |-> FALSE]
Idle == [pc |-> "idle", op |-> "", req |-> NoRequest, code |-> 0]

Free(p) == calls[p].pc \in {"idle", "done"}

Done(op, req, code) == [pc |-> "done", op |-> op, req |-> req, code |-> code]

\* the bodies of the reset requests that race
RacingResets ==
    [body_ok : {TRUE}, email : {"a@x.io"}, otp : generateOTP,
     new_password : {"secret1", "secret2"}]
    \cup {[body_ok |-> TRUE, email |-> "a@x.io", otp |-> "111111", new_password |-> "short"]}

\* ResetPassword up to the return of VerifyOTP inside ResetPasswordWithOTP:
\* the body is decoded and validated, then the SELECT runs
ResetPasswordVerify(p, req) ==
    /\ Free(p)
    /\ IF \/ ~req.body_ok
          \/ ~ValidateEmail(req.email)
          \/ ~ValidateRequired(req.otp)
          \/ ~ValidatePassword(req.new_password)
          \/ ~VerifyOTP(req.email, req.otp)
       THEN /\ calls' = [calls EXCEPT ![p] = Done("ResetPassword", req, StatusBadRequest)]
            /\ Respond("ResetPassword", 0, req.email, StatusBadRequest, <<>>)
       ELSE /\ calls' = [calls EXCEPT ![p] = [pc |-> "write", op |-> "ResetPassword",
                                              req |-> req, code |-> 0]]
            /\ UNCHANGED resp
    /\ UNCHANGED <<incomes, expenses, items, users, now, issued>>

\* the rest of it: the UPDATE of password, otp_code and otp_expires_at, and
\* the answer
ResetPasswordWrite(p) ==
    /\ calls[p].pc = "write"
    /\ calls[p].op = "ResetPassword"
    /\ LET req == calls[p].req
       IN /\ users' = ResetWrite(req.email, Plain(req.new_password))
          /\ issued' = [i \in DOMAIN issued |->
                           IF i \in LiveByEmail(users, req.email)
                           THEN NoIssue ELSE issued[i]]
          /\ calls' = [calls EXCEPT ![p] = Done("ResetPassword", req, StatusOK)]
          /\ Respond("ResetPassword", 0, req.email, StatusOK, <<>>)
    /\ UNCHANGED <<incomes, expenses, items, now>>

\* the same checks without the one of the admin code
SignupCheckAnyCode(p, req) ==
    /\ Free(p)
    /\ IF \/ ~req.body_ok
          \/ ~ValidateEmail(req.email)
          \/ ~ValidateRequired(req.name)
          \/ ~ValidatePassword(req.password)
          \/ UserGetByEmail(req.email) # {}
       THEN /\ calls' = [calls EXCEPT ![p] = Done("Signup", req, StatusBadRequest)]
            /\ Respond("Signup", 0, req.email, StatusBadRequest, <<>>)
       ELSE /\ calls' = [calls EXCEPT ![p] = [pc |-> "insert", op |-> "Signup",
                                              req |-> req, code |-> 0]]
            /\ UNCHANGED resp
    /\ UNCHANGED <<incomes, expenses, items, users, now, issued>>

\* Signup up to the return of GetByEmail and the check of the admin code: the
\* body is decoded and validated, then the SELECT runs
SignupCheck(p, req) ==
    /\ Free(p)
    /\ IF \/ ~req.body_ok
          \/ ~ValidateEmail(req.email)
          \/ ~ValidateRequired(req.name)
          \/ ~ValidatePassword(req.password)
          \/ UserGetByEmail(req.email) # {}
          \/ req.admin_code \notin {"", AdminCode}
       THEN /\ calls' = [calls EXCEPT ![p] = Done("Signup", req, StatusBadRequest)]
            /\ Respond("Signup", 0, req.email, StatusBadRequest, <<>>)
       ELSE /\ calls' = [calls EXCEPT ![p] = [pc |-> "insert", op |-> "Signup",
                                              req |-> req, code |-> 0]]
            /\ UNCHANGED resp
    /\ UNCHANGED <<incomes, expenses, items, users, now, issued>>

\* the rest of it: the INSERT, the token and the answer
SignupInsert(p) ==
    /\ calls[p].pc = "insert"
    /\ calls[p].op = "Signup"
    /\ LET req == calls[p].req
           role == IF req.admin_code = AdminCode THEN RoleAdmin ELSE RoleStandard
           user == [id |-> 0, email |-> req.email, name |-> req.name,
                    password |-> Plain(req.password), role |-> role,
                    otp_code |-> "", otp_expires_at |-> Absent,
                    deleted |-> FALSE]
           done == UserInsert(user)
       IN IF done.err
          THEN /\ calls' = [calls EXCEPT
                              ![p] = Done("Signup", req, StatusInternalServerError)]
               /\ Respond("Signup", 0, req.email, StatusInternalServerError, <<>>)
               /\ UNCHANGED <<users, issued>>
          ELSE /\ users' = done.users
               /\ issued' = Append(issued, NoIssue)
               /\ calls' = [calls EXCEPT ![p] = Done("Signup", req, StatusOK)]
               /\ Respond("Signup", 0, req.email, StatusOK,
                          <<[token |-> GenerateToken(FormatUint(Len(done.users)),
                                                     user.email, user.role),
                             user |-> ProfileOf(users'[Len(users')])]>>)
    /\ UNCHANGED <<incomes, expenses, items, now>>

\* ------------------------------------------------------------ the router
\* the headers of a request that matter to the router.  Authorization is
\* kept as strings.Split(authHeader, " ") sees it: the number of parts (0
\* for an absent header), the first part and the second part
NoToken == [key |-> "", user_id |-> "", email |-> "", role |-> "", iat |-> 0, exp |-> 0]

NoAuthorization == [parts |-> 0, scheme |-> "", token |-> NoToken]

\* the tokens a client holds: the one the last login or signup answered
\* with, and the ones requests carried before
HeldTokens ==
    (IF resp.op \in {"Login", "Signup"} /\ resp.code = StatusOK
     THEN {resp.data[1].token} ELSE {})
    \cup {calls[p].req.authorization.token :
             p \in {q \in Procs : calls[q].op \notin {"", "ResetPassword"}}}

\* the tokens a client makes up: signed with a key of its own
ForgedTokens ==
    {[key |-> "guessed", user_id |-> "1", email |-> "a@x.io", role |-> RoleAdmin,
      iat |-> now, exp |-> now + TokenLife]}

\* the Authorization headers sent
Authorizations ==
    {NoAuthorization}
    \cup [parts : {2}, scheme : {"Bearer", "Token"}, token : HeldTokens \cup ForgedTokens]
    \cup [parts : {3}, scheme : {"Bearer"}, token : HeldTokens]

\* the X-User-ID headers sent
ClientUserIDs == {"", "2"}

Headers == [authorization : Authorizations, x_user_id : ClientUserIDs]

\* the headers of the requests to the routes outside the group
OpenHeaders == [authorization : {NoAuthorization}, x_user_id : ClientUserIDs]

HealthRoute == "/health"
AuthRoutes == {"/api/v1/auth/login", "/api/v1/auth/signup"}
GroupRoutes == {"/api/v1/profile", "/api/v1/income"}

\* the mux of the protected group: the handler a route is registered with
GroupHandler(route) ==
    IF route = "/api/v1/profile" THEN "GetProfile" ELSE "GetAllIncomes"

Denied(headers) == [ok |-> FALSE, headers |-> headers]

\* Header.Add in place of Header.Set: Get returns the client's value
AuthMiddlewareAdding(headers) ==
    LET h == headers.authorization
    IN IF h.parts = 0 \/ h.parts # 2 \/ h.scheme # "Bearer" \/ ~ValidateJWT(h.token).ok
       THEN Denied(headers)
       ELSE [ok |-> TRUE,
             headers |-> [headers EXCEPT !.x_user_id =
                             IF @ = "" THEN ValidateJWT(h.token).claims.user_id ELSE @]]

\* what AuthMiddleware does with a request: rejects it, or hands it on with
\* X-User-ID set to the user id of the claims
AuthMiddleware(headers) ==
    LET h == headers.authorization
    IN IF h.parts = 0
       THEN Denied(headers)
       ELSE IF h.parts # 2 \/ h.scheme # "Bearer"
       THEN Denied(headers)
       ELSE IF ~ValidateJWT(h.token).ok
       THEN Denied(headers)
       ELSE [ok |-> TRUE,
             headers |-> [headers EXCEPT !.x_user_id =
                             ValidateJWT(h.token).claims.user_id]]

GetUserIDFromRequest(headers) ==
    IF headers.x_user_id = "" THEN 0
    ELSE IF ~ParseUint(headers.x_user_id).ok THEN 0
    ELSE ParseUint(headers.x_user_id).n

Request(route, headers) ==
    [route |-> route, authorization |-> headers.authorization,
     x_user_id |-> headers.x_user_id]

\* goroutine p has answered the request: the handler that wrote the answer
\* and its status
Served(p, route, headers) ==
    calls' = [calls EXCEPT ![p] = Done(resp'.op, Request(route, headers), resp'.code)]

\* GET /health
ServeHealth(p, headers) ==
    /\ Free(p)
    /\ Respond("Health", 0, "", StatusOK, <<[body |-> "OK"]>>)
    /\ Served(p, HealthRoute, headers)
    /\ UNCHANGED <<incomes, expenses, items, users, now, issued>>

\* POST /api/v1/auth/signup
ServeSignup(p, headers, req) ==
    /\ Free(p)
    /\ Signup(req)
    /\ Served(p, "/api/v1/auth/signup", headers)

\* POST /api/v1/auth/login
ServeLogin(p, headers, req) ==
    /\ Free(p)
    /\ Login(req)
    /\ Served(p, "/api/v1/auth/login", headers)

\* a route of the group under AuthMiddleware; every handler of the group
\* starts by reading the user id and refuses the id 0
ServeGroup(p, headers, route) ==
    /\ Free(p)
    /\ LET auth == AuthMiddleware(headers)
           userID == GetUserIDFromRequest(auth.headers)
       IN IF ~auth.ok
          THEN /\ Respond("AuthMiddleware", 0, "", StatusUnauthorized, <<>>)
               /\ UNCHANGED <<incomes, expenses, items, users, now, issued>>
          ELSE IF userID = 0
          THEN /\ Respond(GroupHandler(route), 0, "", StatusUnauthorized, <<>>)
               /\ UNCHANGED <<incomes, expenses, items, users, now, issued>>
          ELSE IF route = "/api/v1/profile"
          THEN GetProfile(userID)
          ELSE GetAllIncomes(userID)
    /\ Served(p, route, headers)

\* ------------------------------------------------ requests on a failing store
\* a statement sent to the store either runs (up) or comes back with a
\* connectivity error, which the repositories hand to the handler as they
\* got it.  calls[p].req.store_failed records that the request met one.
Outage(met) == [body_ok |-> TRUE, store_failed |-> met]

\* GetAllIncomes: the error of GetAll is answered 500
GetAllIncomesOnStore(p, userID, up) ==
    /\ Free(p)
    /\ IF up
       THEN GetAllIncomes(userID)
       ELSE /\ Respond("GetAllIncomes", userID, "", StatusInternalServerError, <<>>)
            /\ UNCHANGED <<incomes, expenses, items, users, now, issued>>
    /\ calls' = [calls EXCEPT ![p] = Done("GetAllIncomes", Outage(~up), resp'.code)]

\* GetIncome: the id is parsed before the store is asked; every error of
\* GetOne is answered 404
GetIncomeOnStore(p, userID, idStr, up) ==
    /\ Free(p)
    /\ IF up \/ ~ParseUint(idStr).ok
       THEN GetIncome(userID, idStr)
       ELSE /\ Respond("GetIncome", userID, idStr, StatusNotFound, <<>>)
            /\ UNCHANGED <<incomes, expenses, items, users, now, issued>>
    /\ calls' = [calls EXCEPT
                    ![p] = Done("GetIncome", Outage(~up /\ ParseUint(idStr).ok),
                                resp'.code)]

\* Login: the body is validated before the store is asked; every error of
\* GetByEmail is answered 401
LoginOnStore(p, req, up) ==
    LET asked == req.body_ok /\ ValidateEmail(req.email) /\ ValidatePassword(req.password)
    IN /\ Free(p)
       /\ IF up \/ ~asked
          THEN Login(req)
          ELSE /\ Respond("Login", 0, req.email, StatusUnauthorized, <<>>)
               /\ UNCHANGED <<incomes, expenses, items, users, now, issued>>
       /\ calls' = [calls EXCEPT ![p] = Done("Login", Outage(~up /\ asked), resp'.code)]

\* ResetPassword: the body is validated before the store is asked; VerifyOTP
\* returns an error that is not ErrRecordNotFound as it got it,
\* ResetPasswordWithOTP returns it, and every error of ResetPasswordWithOTP is
\* answered 400
ResetPasswordOnStore(p, req, up) ==
    LET asked == /\ req.body_ok
                 /\ ValidateEmail(req.email)
                 /\ ValidateRequired(req.otp)
                 /\ ValidatePassword(req.new_password)
    IN /\ Free(p)
       /\ IF up \/ ~asked
          THEN ResetPassword(req)
          ELSE /\ Respond("ResetPassword", 0, req.email, StatusBadRequest, <<>>)
               /\ UNCHANGED <<incomes, expenses, items, users, now, issued>>
       /\ calls' = [calls EXCEPT
                       ![p] = Done("ResetPassword", Outage(~up /\ asked), resp'.code)]

\* ------------------------------------------------------ concurrent edits
\* the bodies of the income and expense requests that race
EditIncomes == {r \in IncomeRequests : r.body_ok /\ IncomeValid(r)}

EditExpenses == {r \in ExpenseRequests : r.body_ok /\ ExpenseValid(r)}

\* UpdateIncome up to the return of GetOne and the assignments to the loaded
\* struct; calls[p].req keeps the struct the handler holds
UpdateIncomeLoad(p, userID, idStr, req) ==
    /\ Free(p)
    /\ IF ~ParseUint(idStr).ok \/ ~req.body_ok
       THEN /\ calls' = [calls EXCEPT ![p] = Done("UpdateIncome", req, StatusBadRequest)]
            /\ Respond("UpdateIncome", userID, idStr, StatusBadRequest, <<>>)
       ELSE IF IncomeGetOne(ParseUint(idStr).n, userID) = {}
       THEN /\ calls' = [calls EXCEPT ![p] = Done("UpdateIncome", req, StatusNotFound)]
            /\ Respond("UpdateIncome", userID, idStr, StatusNotFound, <<>>)
       ELSE IF ~IncomeValid(req)
       THEN /\ calls' = [calls EXCEPT ![p] = Done("UpdateIncome", req, StatusBadRequest)]
            /\ Respond("UpdateIncome", userID, idStr, StatusBadRequest, <<>>)
       ELSE \E i \in IncomeGetOne(ParseUint(idStr).n, userID) :
               /\ calls' = [calls EXCEPT
                               ![p] = [pc |-> "save", op |-> "UpdateIncome",
                                       req |-> [body_ok |-> TRUE, user |-> userID,
                                                id |-> idStr, body |-> req,
                                                row |-> IncomeAssign(incomes[i], req)],
                                       code |-> 0]]
               /\ UNCHANGED resp
    /\ UNCHANGED <<incomes, expenses, items, users, now, issued>>

\* the rest of it: IncomeRepo.Update and the answer
UpdateIncomeSave(p) ==
    /\ calls[p].pc = "save"
    /\ calls[p].op = "UpdateIncome"
    /\ incomes' = IncomeUpdate(calls[p].req.row)
    /\ calls' = [calls EXCEPT ![p] = Done("UpdateIncome", calls[p].req, StatusOK)]
    /\ Respond("UpdateIncome", calls[p].req.user, calls[p].req.id, StatusOK,
               <<incomes'[calls[p].req.row.id]>>)
    /\ UNCHANGED <<expenses, items, users, now, issued>>

\* UpdateExpense up to the return of GetOne and the assignments
UpdateExpenseLoad(p, userID, idStr, req) ==
    /\ Free(p)
    /\ IF ~ParseUint(idStr).ok \/ ~req.body_ok
       THEN /\ calls' = [calls EXCEPT ![p] = Done("UpdateExpense", req, StatusBadRequest)]
            /\ Respond("UpdateExpense", userID, idStr, StatusBadRequest, <<>>)
       ELSE IF ExpenseGetOne(ParseUint(idStr).n, userID) = {}
       THEN /\ calls' = [calls EXCEPT ![p] = Done("UpdateExpense", req, StatusNotFound)]
            /\ Respond("UpdateExpense", userID, idStr, StatusNotFound, <<>>)
       ELSE IF ~ExpenseValid(req)
       THEN /\ calls' = [calls EXCEPT ![p] = Done("UpdateExpense", req, StatusBadRequest)]
            /\ Respond("UpdateExpense", userID, idStr, StatusBadRequest, <<>>)
       ELSE \E i \in ExpenseGetOne(ParseUint(idStr).n, userID) :
               /\ calls' = [calls EXCEPT
                               ![p] = [pc |-> "save", op |-> "UpdateExpense",
                                       req |-> [body_ok |-> TRUE, user |-> userID,
                                                id |-> idStr, body |-> req,
                                                row |-> [ExpenseAssign(expenses[i], req) EXCEPT
                                                            !.amount_due = req.amount - req.amount_paid]],
                                       code |-> 0]]
               /\ UNCHANGED resp
    /\ UNCHANGED <<incomes, expenses, items, users, now, issued>>

\* the rest of it: ExpenseRepo.Update and the answer
UpdateExpenseSave(p) ==
    /\ calls[p].pc = "save"
    /\ calls[p].op = "UpdateExpense"
    /\ expenses' = ExpenseUpdate(calls[p].req.row)
    /\ calls' = [calls EXCEPT ![p] = Done("UpdateExpense", calls[p].req, StatusOK)]
    /\ Respond("UpdateExpense", calls[p].req.user, calls[p].req.id, StatusOK,
               <<expenses'[calls[p].req.row.id]>>)
    /\ UNCHANGED <<incomes, items, users, now, issued>>

\* --------------------------------------------------- requests that write
\* the handlers that write to the store
WriteHandlers ==
    {"CreateIncome", "UpdateIncome", "DeleteIncome",
     "CreateExpense", "UpdateExpense", "DeleteExpense",
     "CreateInventoryItem", "UpdateInventoryItem", "DeleteInventoryItem",
     "UpdateQuantity"}

\* the first statements of every handler: GetUserIDFromRequest returned 0
Unauthenticated(op) ==
    /\ Respond(op, 0, "", StatusUnauthorized, <<>>)
    /\ UNCHANGED <<incomes, expenses, items, users, now, issued>>

\* ------------------------------------------------- what the client reads
\* the "error" or "message" string Login writes next to its status
LoginMessageNamingCause(req) ==
    IF ~req.body_ok THEN "Invalid request body"
    ELSE IF ~ValidateEmail(req.email) THEN "Invalid email format"
    ELSE IF ~ValidatePassword(req.password) THEN "Password must be at least 6 characters"
    ELSE IF UserGetByEmail(req.email) = {} THEN "User not found"
    ELSE IF \E i \in UserGetByEmail(req.email) :
               ~PasswordMatches(users[i], Plain(req.password))
    THEN "Invalid email or password"
    ELSE "Login successful"

LoginMessage(req) ==
    IF ~req.body_ok THEN "Invalid request body"
    ELSE IF ~ValidateEmail(req.email) THEN "Invalid email format"
    ELSE IF ~ValidatePassword(req.password) THEN "Password must be at least 6 characters"
    ELSE IF UserGetByEmail(req.email) = {} THEN "Invalid email or password"
    ELSE IF \E i \in UserGetByEmail(req.email) :
               ~PasswordMatches(users[i], Plain(req.password))
    THEN "Invalid email or password"
    ELSE "Login successful"

\* the string ForgotPassword writes next to its status
ForgotPasswordMessage(req) ==
    IF ~req.body_ok THEN "Invalid request body"
    ELSE IF ~ValidateEmail(req.email) THEN "Invalid email format"
    ELSE IF UserGetByEmail(req.email) = {}
    THEN "If the email exists, an OTP has been sent"
    ELSE "If the email exists, an OTP has been sent"

\* goroutine p serves a login; calls[p].req keeps the body, whether the email
\* was registered when the request came, and the body of the answer
ProbeLogin(p, req) ==
    /\ Free(p)
    /\ Login(req)
    /\ calls' = [calls EXCEPT
                    ![p] = Done("Login",
                                [body_ok |-> req.body_ok, email |-> req.email,
                                 password |-> req.password,
                                 known |-> UserGetByEmail(req.email) # {},
                                 message |-> LoginMessage(req), data |-> resp'.data],
                                resp'.code)]

\* goroutine p serves a forgot-password request
ProbeForgotPassword(p, req) ==
    /\ Free(p)
    /\ ForgotPassword(req)
    /\ calls' = [calls EXCEPT
                    ![p] = Done("ForgotPassword",
                                [body_ok |-> req.body_ok, email |-> req.email,
                                 password |-> "",
                                 known |-> UserGetByEmail(req.email) # {},
                                 message |-> ForgotPasswordMessage(req),
                                 data |-> resp'.data],
                                resp'.code)]

\* --------------------------------------------------------- the mine site
\* the MineSiteInfo row of a user, before the handler fills it; of its
\* columns the model keeps the two required ones
MineSiteInfo(userID) ==
    [id |-> 0, user_id |-> userID, owner |-> "", location |-> ""]

\* the columns of mine_site_infos under a unique index: the primary key, as
\* in the other tables that carry an owner
MineSiteUnique == {"id"}

\* Where("user_id = ?").First(&info): the row with the lowest id among the
\* user's; none is answered as (nil, nil)
MineSiteGetByUserID(userID) ==
    {i \in DOMAIN minesites :
        /\ minesites[i].user_id = userID
        /\ \A j \in DOMAIN minesites : minesites[j].user_id = userID => i <= j}

\* db.Create(info): refused when a unique index has the value already
MineSiteInsert(info) ==
    IF "user_id" \in MineSiteUnique
       /\ \E i \in DOMAIN minesites : minesites[i].user_id = info.user_id
    THEN [err |-> TRUE, minesites |-> minesites]
    ELSE [err |-> FALSE, minesites |-> GormCreate(minesites, info)]

MineSiteUpdate(info) == GormSave(minesites, info)

\* the bodies sent to POST /minesite
MineSiteRequests ==
    {[body_ok |-> TRUE, owner |-> "amina", location |-> "geita"],
     [body_ok |-> TRUE, owner |-> "amina", location |-> "mwanza"],
     [body_ok |-> TRUE, owner |-> "", location |-> "geita"],
     [body_ok |-> FALSE, owner |-> "", location |-> ""]}

\* CreateOrUpdateMineSiteInfo up to the return of GetByUserID; calls[p].req
\* keeps the body and the row the lookup returned (id 0: none)
MineSiteLookup(p, userID, req) ==
    /\ Free(p)
    /\ IF ~req.body_ok \/ req.owner = "" \/ req.location = ""
       THEN /\ calls' = [calls EXCEPT
                            ![p] = Done("CreateOrUpdateMineSiteInfo", req, StatusBadRequest)]
            /\ Respond("CreateOrUpdateMineSiteInfo", userID, "", StatusBadRequest, <<>>)
       ELSE /\ \E existingInfo \in
                    IF MineSiteGetByUserID(userID) = {}
                    THEN {MineSiteInfo(userID)}
                    ELSE {minesites[i] : i \in MineSiteGetByUserID(userID)} :
                  calls' = [calls EXCEPT
                               ![p] = [pc |-> "write", op |-> "CreateOrUpdateMineSiteInfo",
                                       req |-> [body_ok |-> TRUE, owner |-> req.owner,
                                                location |-> req.location,
                                                existingInfo |-> existingInfo],
                                       code |-> 0]]
            /\ UNCHANGED resp
    /\ UNCHANGED <<incomes, expenses, items, users, now, issued, minesites>>

\* the rest of it: Update of the row found, or Insert of a new one
MineSiteWrite(p) ==
    /\ calls[p].pc = "write"
    /\ calls[p].op = "CreateOrUpdateMineSiteInfo"
    /\ LET req == calls[p].req
           info == [req.existingInfo EXCEPT !.owner = req.owner,
                                            !.location = req.location]
           done == MineSiteInsert(info)
       IN IF info.id # 0
          THEN /\ minesites' = MineSiteUpdate(info)
               /\ calls' = [calls EXCEPT
                               ![p] = Done("CreateOrUpdateMineSiteInfo", req, StatusOK)]
               /\ Respond("CreateOrUpdateMineSiteInfo", info.user_id, "", StatusOK, <<info>>)
          ELSE IF done.err
          THEN /\ UNCHANGED minesites
               /\ calls' = [calls EXCEPT
                               ![p] = Done("CreateOrUpdateMineSiteInfo", req,
                                           StatusInternalServerError)]
               /\ Respond("CreateOrUpdateMineSiteInfo", info.user_id, "",
                          StatusInternalServerError, <<>>)
          ELSE /\ minesites' = done.minesites
               /\ calls' = [calls EXCEPT
                               ![p] = Done("CreateOrUpdateMineSiteInfo", req, StatusOK)]
               /\ Respond("CreateOrUpdateMineSiteInfo", info.user_id, "", StatusOK,
                          <<minesites'[Len(minesites')]>>)
    /\ UNCHANGED <<incomes, expenses, items, users, now, issued>>

\* ------------------------------------------------------ the stock requests
\* the bodies sent to PATCH /inventory/{id}/quantity while the clock runs
StockQuantities == QuantityRequests \cup {[body_ok |-> TRUE, quantity |-> 0]}

\* goroutine p serves a quantity patch; calls[p].req keeps what was asked
PatchQuantity(p, userID, idStr, req) ==
    /\ Free(p)
    /\ UpdateQuantity(userID, idStr, req)
    /\ calls' = [calls EXCEPT
                    ![p] = Done("UpdateQuantity",
                                [body_ok |-> req.body_ok, quantity |-> req.quantity,
                                 user |-> userID, id |-> idStr],
                                resp'.code)]

\* ------------------------------------------------------------ the process
\* main is the main goroutine: where it stands (pc), the retry counter of
\* connectToDB (counts), the openDB calls made (attempts), the seconds slept
\* between them (slept), whether a connection is held (conn), whether the
\* listener accepts connections (accepting), the signal received and the
\* last line the process wrote before it ended (exit)
MaxCounts == 10
BackoffSeconds == 1

Started ==
    [pc |-> "openDB", counts |-> 0, attempts |-> 0, slept |-> 0, conn |-> FALSE,
     accepting |-> FALSE, signal |-> "", exit |-> ""]

\* the process once the first openDB succeeded, the schema migrated and the
\* listener opened
Serving ==
    [pc |-> "serving", counts |-> 0, attempts |-> 1, slept |-> 0, conn |-> TRUE,
     accepting |-> TRUE, signal |-> "", exit |-> ""]

\* what openDB may return: a connection, or the error of gorm.Open, of db.DB()
\* or of Ping
OpenOutcomes == {"connected", "open failed", "ping failed"}

\* the requests inside a handler
InFlight == {p \in Procs : ~Free(p)}

\* counts >= 10 in place of counts > 10
GiveUpAtCeiling(counts) == counts >= MaxCounts

\* the test that ends the retry loop
GiveUp(counts) == counts > MaxCounts

\* connectToDB: one pass of the loop up to the return of openDB
OpenDB(outcome) ==
    /\ main.pc = "openDB"
    /\ main' = [main EXCEPT !.attempts = @ + 1,
                            !.conn = (outcome = "connected"),
                            !.pc = IF outcome = "connected" THEN "migrate" ELSE "failed"]

\* connectToDB after a failed openDB: return nil, on which initDB panics, or
\* go on to the backoff
Retry ==
    /\ main.pc = "failed"
    /\ main' = IF GiveUp(main.counts)
               THEN [main EXCEPT !.pc = "panicked",
                                 !.exit = "can't connect to database"]
               ELSE [main EXCEPT !.pc = "backoff"]

\* time.Sleep(1 * time.Second); counts++
Backoff ==
    /\ main.pc = "backoff"
    /\ main' = [main EXCEPT !.slept = @ + BackoffSeconds, !.counts = @ + 1,
                            !.pc = "openDB"]

\* initDB with the connection: AutoMigrate, whose error panics; then main
\* builds the handlers and starts ListenAndServe on a goroutine
AutoMigrate(ok) ==
    /\ main.pc = "migrate"
    /\ main' = IF ok
               THEN [main EXCEPT !.pc = "serving", !.accepting = TRUE]
               ELSE [main EXCEPT !.pc = "panicked",
                                 !.exit = "failed to migrate database"]

\* <-quit
Signal(sig) ==
    /\ main.pc = "serving"
    /\ main' = [main EXCEPT !.pc = "shutdown", !.signal = sig]

\* server.Shutdown(nil): the listeners are closed; when every connection is
\* idle Shutdown returns nil and main logs "Server exited"; otherwise it
\* selects on ctx.Done() of the nil context, which panics
Shutdown ==
    /\ main.pc = "shutdown"
    /\ main' = IF InFlight = {}
               THEN [main EXCEPT !.pc = "exited", !.accepting = FALSE,
                                 !.exit = "Server exited"]
               ELSE [main EXCEPT !.pc = "panicked", !.accepting = FALSE,
                                 !.exit = "nil pointer dereference"]

\* a request is accepted and runs up to its second statement
Accept(p, req) ==
    /\ main.accepting
    /\ SignupCheck(p, req)

\* a request in flight runs on while the process lives
Finish(p) ==
    /\ main.pc \in {"serving", "shutdown"}
    /\ SignupInsert(p)

Records == <<incomes, expenses, items, users, now, resp, issued, calls, minesites>>

\* -------------------------------------------------------- specification
\* the minutes at which requests arrive: minute 0, then every minute from the
\* last one before a code issued at minute 0 expires
Instants(bound) == {0} \cup ((OTPWindow - 1) .. bound)

\* the clock moves on to the next of these minutes
Tick(bound) ==
    /\ \E t \in Instants(bound) :
          /\ t > now
          /\ \A x \in Instants(bound) : x > now => t <= x
          /\ now' = t
    /\ UNCHANGED <<incomes, expenses, items, users, resp, issued>>

\* the minutes at which requests reach the router: minute 0, then every
\* minute from the last one before a token signed at minute 0 expires
UptimeInstants(bound) == {0} \cup ((TokenLife - 1) .. bound)

Elapse(bound) ==
    /\ \E t \in UptimeInstants(bound) :
          /\ t > now
          /\ \A x \in UptimeInstants(bound) : x > now => t <= x
          /\ now' = t
    /\ UNCHANGED <<incomes, expenses, items, users, resp, issued>>

Init ==
    /\ incomes = <<>>
    /\ expenses = <<>>
    /\ items = <<>>
    /\ users = <<>>
    /\ now = 0
    /\ resp = NoResponse
    /\ issued = <<>>
    /\ calls = [p \in Procs |-> Idle]
    /\ main = Serving
    /\ minesites = <<>>

Next ==
    \/ \E u \in UserIds : GetAllIncomes(u) /\ UNCHANGED <<calls, main, minesites>>
    \/ \E u \in UserIds, id \in IdStrings : GetIncome(u, id) /\ UNCHANGED <<calls, main, minesites>>
    \/ \E u \in UserIds, req \in IncomeRequests : CreateIncome(u, req) /\ UNCHANGED <<calls, main, minesites>>
    \/ \E u \in UserIds, id \in IdStrings, req \in IncomeRequests : UpdateIncome(u, id, req) /\ UNCHANGED <<calls, main, minesites>>
    \/ \E u \in UserIds, id \in IdStrings : DeleteIncome(u, id) /\ UNCHANGED <<calls, main, minesites>>
    \/ \E u \in UserIds, a, b \in DateStrings : GetIncomeByDateRange(u, a, b) /\ UNCHANGED <<calls, main, minesites>>
    \/ \E u \in UserIds : GetAllExpenses(u) /\ UNCHANGED <<calls, main, minesites>>
    \/ \E u \in UserIds, id \in IdStrings : GetExpense(u, id) /\ UNCHANGED <<calls, main, minesites>>
    \/ \E u \in UserIds, req \in ExpenseRequests : CreateExpense(u, req) /\ UNCHANGED <<calls, main, minesites>>
    \/ \E u \in UserIds, id \in IdStrings, req \in ExpenseRequests : UpdateExpense(u, id, req) /\ UNCHANGED <<calls, main, minesites>>
    \/ \E u \in UserIds, id \in IdStrings : DeleteExpense(u, id) /\ UNCHANGED <<calls, main, minesites>>
    \/ \E u \in UserIds, a, b \in DateStrings : GetExpenseByDateRange(u, a, b) /\ UNCHANGED <<calls, main, minesites>>
    \/ \E u \in UserIds : GetExpenseCategoryBreakdown(u) /\ UNCHANGED <<calls, main, minesites>>
    \/ \E u \in UserIds : GetAllInventory(u) /\ UNCHANGED <<calls, main, minesites>>
    \/ \E u \in UserIds, id \in IdStrings : GetInventoryItem(u, id) /\ UNCHANGED <<calls, main, minesites>>
    \/ \E u \in UserIds, req \in ItemRequests : CreateInventoryItem(u, req) /\ UNCHANGED <<calls, main, minesites>>
    \/ \E u \in UserIds, id \in IdStrings, req \in ItemRequests : UpdateInventoryItem(u, id, req) /\ UNCHANGED <<calls, main, minesites>>
    \/ \E u \in UserIds, id \in IdStrings : DeleteInventoryItem(u, id) /\ UNCHANGED <<calls, main, minesites>>
    \/ \E u \in UserIds : GetLowStockItems(u) /\ UNCHANGED <<calls, main, minesites>>
    \/ \E u \in UserIds, id \in IdStrings, req \in QuantityRequests : UpdateQuantity(u, id, req) /\ UNCHANGED <<calls, main, minesites>>
    \/ \E u \in UserIds : GetFinancialSummary(u) /\ UNCHANGED <<calls, main, minesites>>
    \/ \E u \in UserIds, y \in YearStrings : GetMonthlyData(u, y) /\ UNCHANGED <<calls, main, minesites>>

Spec == Init /\ [][Next]_vars

\* the account specification: the auth and profile handlers, the user
\* repository calls and the clock, on an empty record store
NextAuth ==
    \/ \E req \in SignupRequests : Signup(req) /\ UNCHANGED <<calls, main, minesites>>
    \/ \E req \in LoginRequests : Login(req) /\ UNCHANGED <<calls, main, minesites>>
    \/ \E req \in ForgotPasswordRequests : ForgotPassword(req) /\ UNCHANGED <<calls, main, minesites>>
    \/ \E req \in ResetPasswordRequests : ResetPassword(req) /\ UNCHANGED <<calls, main, minesites>>
    \/ \E u \in UserIds : GetProfile(u) /\ UNCHANGED <<calls, main, minesites>>
    \/ \E u \in Editors, req \in ProfileRequests : UpdateProfile(u, req) /\ UNCHANGED <<calls, main, minesites>>
    \/ \E u \in Editors, p \in CallPasswords : CallUpdate(u, p) /\ UNCHANGED <<calls, main, minesites>>
    \/ \E u \in Editors : CallResetPassword(u, "secret1") /\ UNCHANGED <<calls, main, minesites>>
    \/ Tick(MaxTime) /\ UNCHANGED <<calls, main, minesites>>

SpecAuth == Init /\ [][NextAuth]_vars

\* the concurrent specification: accounts are registered and codes issued
\* while two goroutines serve password resets statement by statement
NextRace ==
    \/ \E req \in {SignupBase} : Signup(req) /\ UNCHANGED <<calls, main, minesites>>
    \/ \E req \in ForgotPasswordRequests : ForgotPassword(req) /\ UNCHANGED <<calls, main, minesites>>
    \/ \E p \in Procs, req \in RacingResets : ResetPasswordVerify(p, req) /\ UNCHANGED <<main, minesites>>
    \/ \E p \in Procs : ResetPasswordWrite(p) /\ UNCHANGED <<main, minesites>>
    \/ Tick(MaxTime) /\ UNCHANGED <<calls, main, minesites>>

SpecRace == Init /\ [][NextRace]_vars

\* the signup specification: two goroutines serve signups statement by
\* statement
NextSignups ==
    \/ \E p \in Procs, req \in SignupRequests : SignupCheck(p, req) /\ UNCHANGED <<main, minesites>>
    \/ \E p \in Procs : SignupInsert(p) /\ UNCHANGED <<main, minesites>>

SpecSignups == Init /\ [][NextSignups]_vars

\* the router specification: a goroutine serves the health route, the
\* auth routes and the protected group while tokens age
RouterSignups == {SignupBase, [SignupBase EXCEPT !.email = "b@x.io", !.password = "secret2"]}

\* the goroutine whose requests are followed
RouterProcs == {1}

RouterLogins == {[body_ok |-> TRUE, email |-> "a@x.io", password |-> "secret1"]}

NextRouter ==
    \/ \E p \in RouterProcs, h \in OpenHeaders : ServeHealth(p, h) /\ UNCHANGED <<main, minesites>>
    \/ \E p \in RouterProcs, h \in OpenHeaders, req \in RouterSignups : ServeSignup(p, h, req) /\ UNCHANGED <<main, minesites>>
    \/ \E p \in RouterProcs, h \in OpenHeaders, req \in RouterLogins : ServeLogin(p, h, req) /\ UNCHANGED <<main, minesites>>
    \/ \E p \in RouterProcs, h \in Headers, route \in GroupRoutes : ServeGroup(p, h, route) /\ UNCHANGED <<main, minesites>>
    \/ Elapse(MaxUptime) /\ UNCHANGED <<calls, main, minesites>>

SpecRouter == Init /\ [][NextRouter]_vars

\* the outage specification: records and accounts are created and codes
\* issued on a store that is up, and a goroutine serves reads, logins and
\* resets on a store that may fail
OutageResets ==
    {r \in ResetPasswordRequests : r.email = "a@x.io" /\ r.new_password # "secret1"}

NextOutage ==
    \/ \E u \in UserIds, req \in {IncomeBase} : CreateIncome(u, req) /\ UNCHANGED <<calls, main, minesites>>
    \/ \E req \in {SignupBase} : Signup(req) /\ UNCHANGED <<calls, main, minesites>>
    \/ \E req \in ForgotPasswordRequests : ForgotPassword(req) /\ UNCHANGED <<calls, main, minesites>>
    \/ \E p \in RouterProcs, u \in UserIds, up \in BOOLEAN : GetAllIncomesOnStore(p, u, up) /\ UNCHANGED <<main, minesites>>
    \/ \E p \in RouterProcs, u \in UserIds, id \in IdStrings, up \in BOOLEAN : GetIncomeOnStore(p, u, id, up) /\ UNCHANGED <<main, minesites>>
    \/ \E p \in RouterProcs, req \in LoginRequests, up \in BOOLEAN : LoginOnStore(p, req, up) /\ UNCHANGED <<main, minesites>>
    \/ \E p \in RouterProcs, req \in OutageResets, up \in BOOLEAN : ResetPasswordOnStore(p, req, up) /\ UNCHANGED <<main, minesites>>

SpecOutage == Init /\ [][NextOutage]_vars

\* the process specification: main from its first statement to its end, with
\* two goroutines serving signups while it serves
InitMain ==
    /\ incomes = <<>>
    /\ expenses = <<>>
    /\ items = <<>>
    /\ users = <<>>
    /\ now = 0
    /\ resp = NoResponse
    /\ issued = <<>>
    /\ calls = [p \in Procs |-> Idle]
    /\ main = Started
    /\ minesites = <<>>

MainRequests == {SignupBase, [SignupBase EXCEPT !.password = "short"]}

Boot ==
    \/ \E outcome \in OpenOutcomes : OpenDB(outcome)
    \/ Retry
    \/ Backoff
    \/ \E ok \in BOOLEAN : AutoMigrate(ok)

NextMain ==
    \/ \E outcome \in OpenOutcomes : OpenDB(outcome) /\ UNCHANGED Records
    \/ Retry /\ UNCHANGED Records
    \/ Backoff /\ UNCHANGED Records
    \/ \E ok \in BOOLEAN : AutoMigrate(ok) /\ UNCHANGED Records
    \/ \E sig \in {"SIGINT", "SIGTERM"} : Signal(sig) /\ UNCHANGED Records
    \/ Shutdown /\ UNCHANGED Records
    \/ \E p \in Procs, req \in MainRequests : Accept(p, req) /\ UNCHANGED <<main, minesites>>
    \/ \E p \in Procs : Finish(p) /\ UNCHANGED <<main, minesites>>

SpecMain == InitMain /\ [][NextMain]_vars

\* the scheduler runs every goroutine that can run: no step of main and no
\* handler waits forever
SpecMainLive ==
    /\ SpecMain
    /\ WF_vars(Boot /\ UNCHANGED Records)
    /\ WF_vars(Shutdown /\ UNCHANGED Records)
    /\ \A p \in Procs : WF_vars(Finish(p) /\ UNCHANGED <<main, minesites>>)

\* last minute of the clock of the stock specification
MaxStockTime == 9

\* the stock specification: items are created, deleted and their quantity
\* patched while the clock runs
NextStock ==
    \/ \E u \in UserIds : CreateInventoryItem(u, ItemBase) /\ UNCHANGED <<calls, main, minesites>>
    \/ \E u \in UserIds, id \in IdStrings : DeleteInventoryItem(u, id) /\ UNCHANGED <<calls, main, minesites>>
    \/ \E p \in RouterProcs, u \in UserIds, id \in IdStrings, req \in StockQuantities : PatchQuantity(p, u, id, req) /\ UNCHANGED <<main, minesites>>
    \/ Tick(MaxStockTime) /\ UNCHANGED <<calls, main, minesites>>

SpecStock == Init /\ [][NextStock]_vars

\* the ids the racing requests name
EditIds == {"1", "2"}

\* the editing specification: one user's records are created and deleted
\* while two goroutines serve updates statement by statement
NextEdit ==
    \/ \E req \in EditIncomes : CreateIncome(1, req) /\ UNCHANGED <<calls, main, minesites>>
    \/ \E p \in Procs, id \in EditIds, req \in EditIncomes : UpdateIncomeLoad(p, 1, id, req) /\ UNCHANGED <<main, minesites>>
    \/ \E p \in Procs : UpdateIncomeSave(p) /\ UNCHANGED <<main, minesites>>
    \/ \E id \in EditIds : DeleteIncome(1, id) /\ UNCHANGED <<calls, main, minesites>>
    \/ \E req \in EditExpenses : CreateExpense(1, req) /\ UNCHANGED <<calls, main, minesites>>
    \/ \E p \in Procs, id \in EditIds, req \in EditExpenses : UpdateExpenseLoad(p, 1, id, req) /\ UNCHANGED <<main, minesites>>
    \/ \E p \in Procs : UpdateExpenseSave(p) /\ UNCHANGED <<main, minesites>>
    \/ \E id \in EditIds : DeleteExpense(1, id) /\ UNCHANGED <<calls, main, minesites>>

SpecEdit == Init /\ [][NextEdit]_vars

\* the writing specification: the handlers that write, called with and
\* without a user id
NextWrites ==
    \/ \E op \in WriteHandlers : Unauthenticated(op) /\ UNCHANGED <<calls, main, minesites>>
    \/ \E u \in UserIds, req \in IncomeRequests : CreateIncome(u, req) /\ UNCHANGED <<calls, main, minesites>>
    \/ \E u \in UserIds, id \in IdStrings, req \in IncomeRequests : UpdateIncome(u, id, req) /\ UNCHANGED <<calls, main, minesites>>
    \/ \E u \in UserIds, id \in IdStrings : DeleteIncome(u, id) /\ UNCHANGED <<calls, main, minesites>>
    \/ \E u \in UserIds, req \in ExpenseRequests : CreateExpense(u, req) /\ UNCHANGED <<calls, main, minesites>>
    \/ \E u \in UserIds, id \in IdStrings, req \in ExpenseRequests : UpdateExpense(u, id, req) /\ UNCHANGED <<calls, main, minesites>>
    \/ \E u \in UserIds, id \in IdStrings : DeleteExpense(u, id) /\ UNCHANGED <<calls, main, minesites>>
    \/ \E u \in UserIds, req \in ItemRequests : CreateInventoryItem(u, req) /\ UNCHANGED <<calls, main, minesites>>
    \/ \E u \in UserIds, id \in IdStrings, req \in ItemRequests : UpdateInventoryItem(u, id, req) /\ UNCHANGED <<calls, main, minesites>>
    \/ \E u \in UserIds, id \in IdStrings : DeleteInventoryItem(u, id) /\ UNCHANGED <<calls, main, minesites>>
    \/ \E u \in UserIds, id \in IdStrings, req \in QuantityRequests : UpdateQuantity(u, id, req) /\ UNCHANGED <<calls, main, minesites>>

SpecWrites == Init /\ [][NextWrites]_vars

\* the probing specification: one account is registered and two goroutines
\* serve logins and forgot-password requests for registered and unregistered
\* emails
NextProbe ==
    \/ \E req \in {SignupBase} : Signup(req) /\ UNCHANGED <<calls, main, minesites>>
    \/ \E p \in Procs, req \in LoginRequests : ProbeLogin(p, req) /\ UNCHANGED <<main, minesites>>
    \/ \E p \in Procs, req \in ForgotPasswordRequests : ProbeForgotPassword(p, req) /\ UNCHANGED <<main, minesites>>

SpecProbe == Init /\ [][NextProbe]_vars

\* the role specification: a goroutine serves signups with and without an
\* admin code, and the accounts log in, edit their profile, ask for codes and
\* reset their password
NextRoles ==
    \/ \E p \in RouterProcs, req \in SignupRequests : SignupCheck(p, req) /\ UNCHANGED <<main, minesites>>
    \/ \E p \in RouterProcs : SignupInsert(p) /\ UNCHANGED <<main, minesites>>
    \/ \E req \in RouterLogins : Login(req) /\ UNCHANGED <<calls, main, minesites>>
    \/ \E u \in UserIds, req \in ProfileRequests : UpdateProfile(u, req) /\ UNCHANGED <<calls, main, minesites>>
    \/ \E req \in ForgotPasswordRequests : ForgotPassword(req) /\ UNCHANGED <<calls, main, minesites>>
    \/ \E req \in OutageResets : ResetPassword(req) /\ UNCHANGED <<calls, main, minesites>>

SpecRoles == Init /\ [][NextRoles]_vars

\* the mine-site specification: two goroutines serve the users' mine-site
\* requests statement by statement
NextMineSite ==
    \/ \E p \in Procs, u \in UserIds, req \in MineSiteRequests : MineSiteLookup(p, u, req) /\ UNCHANGED main
    \/ \E p \in Procs : MineSiteWrite(p) /\ UNCHANGED main

SpecMineSite == Init /\ [][NextMineSite]_vars

\* ------------------------------------------------- ownership of records
OwnedBy(tbl, userID) == {i \in DOMAIN tbl : tbl[i].user_id = userID}

\* the id names a row of tbl that another user owns
Foreign(tbl, idStr, userID) ==
    /\ ParseUint(idStr).ok
    /\ ParseUint(idStr).n \in DOMAIN tbl
    /\ tbl[ParseUint(idStr).n].user_id # userID

\* the id names no row of tbl at all
Missing(tbl, idStr) == ParseUint(idStr).ok /\ ParseUint(idStr).n \notin DOMAIN tbl

Days == {ParseDate(d).day : d \in DateStrings}
Years == {CurrentYear} \cup {Atoi(y).n : y \in YearStrings}

ListOps ==
    {"GetAllIncomes", "GetIncomeByDateRange", "GetAllExpenses",
     "GetExpenseByDateRange", "GetAllInventory", "GetLowStockItems"}

\* C1: every list, date-range, low-stock, category-breakdown, monthly-rollup
\* and financial-summary result for user U is computed only from rows whose
\* owner is U: the row sets the queries select hold U's rows only, the rows
\* answered carry U's id, and the totals answered are the sums over U's rows.
OwnerScopedReads ==
    /\ \A u \in UserIds :
          /\ IncomeGetAllIds(u) \cup IncomeSummaryIds(u) \cup IncomeReceivableIds(u)
                \subseteq OwnedBy(incomes, u)
          /\ ExpenseGetAllIds(u) \cup ExpenseSummaryIds(u) \cup ExpensePayableIds(u)
                \cup ExpenseBreakdownIds(u) \subseteq OwnedBy(expenses, u)
          /\ InventoryGetAllIds(u) \cup InventoryLowStockIds(u) \subseteq OwnedBy(items, u)
          /\ \A y \in Years :
                /\ IncomeMonthlyIds(u, y) \subseteq OwnedBy(incomes, u)
                /\ ExpenseMonthlyIds(u, y) \subseteq OwnedBy(expenses, u)
          /\ \A a, b \in Days :
                /\ IncomeGetByDateRangeIds(u, a, b) \subseteq OwnedBy(incomes, u)
                /\ ExpenseGetByDateRangeIds(u, a, b) \subseteq OwnedBy(expenses, u)
    /\ resp.op \in ListOps =>
          \A k \in DOMAIN resp.data : resp.data[k].user_id = resp.user
    /\ resp.op = "GetFinancialSummary" =>
          /\ resp.data[1].total_income =
                Sum([i \in {j \in OwnedBy(incomes, resp.user) : ~incomes[j].deleted}
                        |-> incomes[i].total_amount])
          /\ resp.data[1].total_expenses =
                Sum([i \in {j \in OwnedBy(expenses, resp.user) : ~expenses[j].deleted}
                        |-> expenses[i].amount])
    /\ resp.op = "GetExpenseCategoryBreakdown" =>
          \A k \in DOMAIN resp.data :
             resp.data[k].amount =
                Sum([i \in {j \in OwnedBy(expenses, resp.user) :
                               /\ ~expenses[j].deleted
                               /\ expenses[j].category = resp.data[k].category}
                        |-> expenses[i].amount])

\* a summary was answered to a user while another user holds live income
\* and expense rows, and the user holds one too
OwnerScopedReadsWitness ==
    /\ resp.op = "GetFinancialSummary"
    /\ resp.data[1].total_income > 0
    /\ \E i \in DOMAIN incomes :
          incomes[i].user_id # resp.user /\ ~incomes[i].deleted

\* C2 as stated: a get-one or PUT by B for an id owned by A is answered 404
\* with no data
ForeignGetOrPutIsNotFound ==
    /\ resp.op \in {"GetIncome", "UpdateIncome"} /\ Foreign(incomes, resp.id, resp.user)
          => resp.code = StatusNotFound /\ resp.data = <<>>
    /\ resp.op \in {"GetExpense", "UpdateExpense"} /\ Foreign(expenses, resp.id, resp.user)
          => resp.code = StatusNotFound /\ resp.data = <<>>
    /\ resp.op \in {"GetInventoryItem", "UpdateInventoryItem"}
          /\ Foreign(items, resp.id, resp.user)
          => resp.code = StatusNotFound /\ resp.data = <<>>

\* the answer to a request for a row of another user: 404 and no data, or
\* 400 and no data when the body of a PUT does not decode
ForeignAnswer(decoded) ==
    /\ resp'.code = IF decoded THEN StatusNotFound ELSE StatusBadRequest
    /\ resp'.data = <<>>

\* one step of a get-one or PUT on a row of another user
ForeignGetOrPutStep ==
    LET u == resp'.user
        id == resp'.id
    IN /\ resp'.op = "GetIncome" /\ Foreign(incomes, id, u) => ForeignAnswer(TRUE)
       /\ resp'.op = "GetExpense" /\ Foreign(expenses, id, u) => ForeignAnswer(TRUE)
       /\ resp'.op = "GetInventoryItem" /\ Foreign(items, id, u) => ForeignAnswer(TRUE)
       /\ resp'.op = "UpdateIncome" /\ Foreign(incomes, id, u) =>
             /\ incomes' = incomes
             /\ \A req \in IncomeRequests :
                   UpdateIncome(u, id, req) => ForeignAnswer(req.body_ok)
       /\ resp'.op = "UpdateExpense" /\ Foreign(expenses, id, u) =>
             /\ expenses' = expenses
             /\ \A req \in ExpenseRequests :
                   UpdateExpense(u, id, req) => ForeignAnswer(req.body_ok)
       /\ resp'.op = "UpdateInventoryItem" /\ Foreign(items, id, u) =>
             /\ items' = items
             /\ \A req \in ItemRequests :
                   UpdateInventoryItem(u, id, req) => ForeignAnswer(req.body_ok)

\* C2 (amended): a get-one by B for an id owned by A, and a PUT by B for such
\* an id whose body decodes as JSON, is answered 404; a PUT whose body does
\* not decode is answered 400 before any lookup.  Neither returns a field of
\* A's record nor changes it, and neither is answered with another code.
ForeignGetOrPutAnswered == [][ForeignGetOrPutStep]_vars

\* a PUT for a live income row of another user was answered 404
ForeignGetOrPutWitness ==
    /\ resp.op = "UpdateIncome"
    /\ resp.code = StatusNotFound
    /\ Foreign(incomes, resp.id, resp.user)
    /\ ~incomes[ParseUint(resp.id).n].deleted

\* one step of a delete or a quantity patch on a row that is not the caller's
ForeignDeleteOrPatchStep ==
    LET u == resp'.user
        id == resp'.id
    IN /\ resp'.op = "DeleteIncome" /\ (Foreign(incomes, id, u) \/ Missing(incomes, id))
             => resp'.code = StatusNotFound
       /\ resp'.op = "DeleteExpense" /\ (Foreign(expenses, id, u) \/ Missing(expenses, id))
             => resp'.code = StatusNotFound
       /\ resp'.op = "DeleteInventoryItem" /\ (Foreign(items, id, u) \/ Missing(items, id))
             => resp'.code = StatusNotFound
       /\ resp'.op = "UpdateQuantity" /\ (Foreign(items, id, u) \/ Missing(items, id)) =>
             \A req \in QuantityRequests :
                /\ req.body_ok
                /\ ValidateNonNegativeNumber(req.quantity)
                /\ UpdateQuantity(u, id, req)
                => resp'.code = StatusNotFound

\* C3 as stated: a delete or a quantity patch by B for an id owned by A, or
\* for an id that does not exist, is answered 404
ForeignDeleteOrPatchIsNotFound == [][ForeignDeleteOrPatchStep]_vars

\* one step on a table: old before it, new after it
RowsChangeByOwnerOnly(old, new) ==
    /\ DOMAIN old \subseteq DOMAIN new
    /\ \A i \in DOMAIN old :
          /\ new[i].user_id = old[i].user_id
          /\ new[i].id = old[i].id
          /\ new[i] # old[i] => resp'.user = old[i].user_id

\* C4: a request of user B never changes, soft-deletes or re-assigns a row
\* of user A: in every step a stored row that changes is a row of the
\* requesting user, keeps its owner and its id, and no row disappears.
OwnerOnlyWrites ==
    [][/\ RowsChangeByOwnerOnly(incomes, incomes')
       /\ RowsChangeByOwnerOnly(expenses, expenses')
       /\ RowsChangeByOwnerOnly(items, items')]_vars

\* user B asked to delete a live row of user A, which is still live afterwards
OwnerOnlyWritesWitness ==
    /\ resp.op = "DeleteIncome"
    /\ Foreign(incomes, resp.id, resp.user)
    /\ ~incomes[ParseUint(resp.id).n].deleted

\* C5: every stored income row has total_amount = quantity * price_per_unit
\* and amount_due = total_amount - amount_paid, and every stored expense row
\* has amount_due = amount - amount_paid, whatever the request supplied.
DerivedAmounts ==
    /\ \A i \in DOMAIN incomes :
          /\ incomes[i].total_amount = incomes[i].quantity * incomes[i].price_per_unit
          /\ incomes[i].amount_due = incomes[i].total_amount - incomes[i].amount_paid
    /\ \A i \in DOMAIN expenses :
          expenses[i].amount_due = expenses[i].amount - expenses[i].amount_paid

\* a row created with qty 10, price 50, paid 300 was updated by a request
\* that pays 400 and supplies total_amount 999 and amount_due 7: it is
\* stored with total 500 and due 100
DerivedAmountsWitness ==
    /\ resp.op = "UpdateIncome"
    /\ resp.code = StatusOK
    /\ resp.data[1].quantity = 10 /\ resp.data[1].price_per_unit = 50
    /\ resp.data[1].amount_paid = 400
    /\ resp.data[1].total_amount = 500 /\ resp.data[1].amount_due = 100
    /\ incomes[ParseUint(resp.id).n] = resp.data[1]

\* ---------------------------------------------------- passwords and codes
Plaintexts == {Plain("secret1"), Plain("secret2")}

\* one successful PUT /profile
ProfileUpdateStep ==
    resp'.op = "UpdateProfile" /\ resp'.code = StatusOK =>
       /\ users'[resp'.user].password = users[resp'.user].password
       /\ \A p \in Plaintexts :
             PasswordMatches(users[resp'.user], p) => PasswordMatches(users'[resp'.user], p)

\* C6 as stated: a profile update, which supplies no new password, leaves
\* the stored password hash untouched, so every password that matched
\* before the update still matches after it
ProfileUpdateKeepsPassword == [][ProfileUpdateStep]_vars

\* C7 as stated: whatever Insert, Update, ResetPassword and
\* ResetPasswordWithOTP calls were made, every stored password field is a
\* hash: never a plaintext and never the empty value
StoredPasswordsAreHashes ==
    \A i \in DOMAIN users : users[i].password.n >= 1

\* C8: a code GenerateAndSaveOTP returned for a user at minute T (the user's
\* outstanding code: not replaced by a later one, not consumed by a reset)
\* verifies for the user's email at every minute before T + 10 and at no
\* minute from T + 10 on; no other code verifies for that email, and no code
\* verifies for an email whose user holds none or for an email of no user.
OTPValidInWindow ==
    /\ \A i \in DOMAIN users, c \in PresentedCodes :
          VerifyOTP(users[i].email, c) <=>
             /\ issued[i].set
             /\ c = issued[i].code
             /\ now < issued[i].at + OTPWindow
    /\ \A c \in PresentedCodes : ~VerifyOTP("nobody", c)

\* user 1 holds a code issued 10 minutes ago, which no longer verifies, and
\* user 2 a different code issued a minute ago, which verifies for user 2
\* and not for user 1
OTPValidInWindowWitness ==
    /\ Len(users) = 2
    /\ issued[1].set /\ now = issued[1].at + OTPWindow
    /\ ~VerifyOTP(users[1].email, issued[1].code)
    /\ issued[2].set /\ now = issued[2].at + 1
    /\ issued[2].code # issued[1].code
    /\ VerifyOTP(users[2].email, issued[2].code)
    /\ ~VerifyOTP(users[1].email, issued[2].code)

\* one reset request whose code does not verify
ResetFailsClosedStep ==
    resp'.op = "ResetPassword" =>
       \A req \in ResetPasswordRequests :
          ResetPassword(req) /\ ~VerifyOTP(req.email, req.otp) =>
             /\ ResetPasswordWithOTP(req.email, req.otp, req.new_password).err
             /\ ResetPasswordWithOTP(req.email, req.otp, req.new_password).users = users
             /\ resp'.code = StatusBadRequest
             /\ users' = users

\* C9: when the code presented does not match the code stored for the email
\* or has expired, ResetPasswordWithOTP returns an error and writes nothing:
\* the reset request is answered 400 and the users table, password hashes,
\* codes and expiries included, is exactly as it was.
ResetFailsClosed == [][ResetFailsClosedStep]_vars

\* a reset was refused for a user whose stored code has expired
ResetFailsClosedWitness ==
    /\ resp.op = "ResetPassword"
    /\ resp.code = StatusBadRequest
    /\ \E i \in UserGetByEmail(resp.id) :
          /\ issued[i].set
          /\ users[i].otp_code = issued[i].code
          /\ now >= issued[i].at + OTPWindow

\* what holds of user i after a successful reset to newPassword with code
\* otp: the new password matches, the code and the expiry are cleared, the
\* code no longer verifies and a second reset with it fails
ResetOutcome(i, otp, newPassword) ==
    /\ PasswordMatches(users'[i], Plain(newPassword))
    /\ users'[i].otp_code = ""
    /\ ~users'[i].otp_expires_at.set
    /\ ~VerifyOTPAt(users', now', users'[i].email, otp)

\* one successful reset, after which no password that matched before matches
ResetReplacesPasswordStep ==
    resp'.op = "ResetPassword" /\ resp'.code = StatusOK =>
       \A req \in ResetPasswordRequests :
          ResetPassword(req) =>
             \A i \in LiveByEmail(users, req.email) :
                /\ ResetOutcome(i, req.otp, req.new_password)
                /\ \A q \in Plaintexts :
                      PasswordMatches(users[i], q) => ~PasswordMatches(users'[i], q)

\* C10 as stated: after a successful reset the new password matches and the
\* previous password does not
ResetReplacesPassword == [][ResetReplacesPasswordStep]_vars

\* one reset request for a known email
ResetConsumesCodeStep ==
    resp'.op = "ResetPassword" =>
       \A req \in ResetPasswordRequests :
          ResetPassword(req) =>
             \A i \in LiveByEmail(users, req.email) :
                /\ resp'.code = StatusOK =>
                      /\ ResetOutcome(i, req.otp, req.new_password)
                      /\ \A q \in Plaintexts :
                            q # Plain(req.new_password) => ~PasswordMatches(users'[i], q)
                      /\ ~issued'[i].set
                /\ ~issued[i].set =>
                      /\ ~VerifyOTP(req.email, req.otp)
                      /\ resp'.code = StatusBadRequest
                      /\ users' = users

\* C10 (amended): after a successful ResetPasswordWithOTP(email, code, p),
\* p matches and every other password does not (the previous password
\* included, unless it is p itself); the code and the expiry are cleared,
\* and from then until a new code is generated no code verifies for the
\* email and a reset with any code is refused and writes nothing.
ResetConsumesCode == [][ResetConsumesCodeStep]_vars

\* a user who signed up with one password has reset it to another with a
\* code, which is now cleared
ResetConsumesCodeWitness ==
    /\ resp.op = "ResetPassword"
    /\ resp.code = StatusOK
    /\ \E i \in UserGetByEmail(resp.id) :
          /\ users[i].email = "a@x.io"
          /\ PasswordMatches(users[i], Plain("secret2"))
          /\ users[i].otp_code = ""
          /\ ~issued[i].set

\* ---------------------------------------------------- concurrent resets
\* goroutine q has answered 200 to a reset with this code for this address,
\* and no code has been issued for the address since
ResetAlreadyDone(q, email, otp) ==
    /\ calls[q].pc = "done"
    /\ calls[q].op = "ResetPassword"
    /\ calls[q].code = StatusOK
    /\ calls[q].req.email = email
    /\ calls[q].req.otp = otp
    /\ \A i \in LiveByEmail(users, email) : ~issued[i].set

\* a reset request's write step is not answered 200 when the other request
\* has already been
OneResetPerCodeStep ==
    \A p \in Procs :
       (calls[p].pc = "write" /\ calls[p].op = "ResetPassword"
          /\ calls'[p].pc = "done" /\ calls'[p].code = StatusOK) =>
       \A q \in Procs \ {p} :
          ~ResetAlreadyDone(q, calls[p].req.email, calls[p].req.otp)

\* C11: the verification of the code and the write that clears it act as
\* one atomic step: of two concurrent reset requests that present the same
\* valid code for the same email at most one succeeds, so one code
\* authorizes at most one password reset.
OneResetPerCode == [][OneResetPerCodeStep]_vars

\* ------------------------------------------------------------ soft delete
Deleted(tbl) == {i \in DOMAIN tbl : tbl[i].deleted}

GetOneOps == {"GetIncome", "GetExpense", "GetInventoryItem"}

\* no get-one, list-all, date-range or low-stock query of any user selects a
\* row marked deleted, and no answer to such a read carries one
NoDeletedRowRead ==
    /\ \A u \in UserIds :
          /\ \A i \in Deleted(incomes) :
                /\ i \notin IncomeGetAllIds(u)
                /\ i \notin IncomeGetOne(i, u)
                /\ \A a, b \in Days : i \notin IncomeGetByDateRangeIds(u, a, b)
          /\ \A i \in Deleted(expenses) :
                /\ i \notin ExpenseGetAllIds(u)
                /\ i \notin ExpenseGetOne(i, u)
                /\ \A a, b \in Days : i \notin ExpenseGetByDateRangeIds(u, a, b)
          /\ \A i \in Deleted(items) :
                /\ i \notin InventoryGetAllIds(u)
                /\ i \notin InventoryGetOne(i, u)
                /\ i \notin InventoryLowStockIds(u)
    /\ resp.op \in ListOps \cup GetOneOps =>
          \A k \in DOMAIN resp.data : ~resp.data[k].deleted

\* one step on a table: no row is removed and a row marked deleted stays so
DeletedStays(old, new) ==
    /\ DOMAIN old \subseteq DOMAIN new
    /\ \A i \in Deleted(old) : new[i].deleted

\* a delete of a live row by its owner, answered 200, marks the row and
\* leaves its other columns as they were
DeleteMarks(op, old, new) ==
    (resp'.op = op /\ resp'.code = StatusOK) =>
       \A i \in ScopedLive(old, ParseUint(resp'.id).n, resp'.user) :
          new[i] = [old[i] EXCEPT !.deleted = TRUE]

SoftDeleteStep ==
    /\ DeletedStays(incomes, incomes')
    /\ DeletedStays(expenses, expenses')
    /\ DeletedStays(items, items')
    /\ DeleteMarks("DeleteIncome", incomes, incomes')
    /\ DeleteMarks("DeleteExpense", expenses, expenses')
    /\ DeleteMarks("DeleteInventoryItem", items, items')

LiveOf(tbl, userID) == {i \in OwnedBy(tbl, userID) : ~tbl[i].deleted}

\* the fraction x equals a / b * 100
IsPercentOf(x, a, b) == x.num * b = a * 100 * x.den

\* C13: the financial summary of a user reports net_profit = total_income -
\* total_expenses and profit_margin = net_profit / total_income * 100 when
\* total_income > 0 and 0 otherwise, where total_income and total_expenses
\* are the sums of total_amount and of amount over the user's non-deleted
\* income and expense rows (0 when there are none).
SummaryProfit ==
    resp.op = "GetFinancialSummary" =>
       LET summary == resp.data[1]
           totalIncome == Sum([i \in LiveOf(incomes, resp.user) |-> incomes[i].total_amount])
           totalExpenses == Sum([i \in LiveOf(expenses, resp.user) |-> expenses[i].amount])
       IN /\ summary.total_income = totalIncome
          /\ summary.total_expenses = totalExpenses
          /\ summary.net_profit = totalIncome - totalExpenses
          /\ IF totalIncome > 0
             THEN IsPercentOf(summary.profit_margin, totalIncome - totalExpenses, totalIncome)
             ELSE summary.profit_margin.num = 0

\* a summary with income and expenses on both sides and a profit that is
\* neither of them
SummaryProfitWitness ==
    /\ resp.op = "GetFinancialSummary"
    /\ resp.data[1].total_income > 0
    /\ resp.data[1].total_expenses > 0
    /\ resp.data[1].net_profit # 0
    /\ resp.data[1].profit_margin.num # 0

\* what a row adds to the receivables or payables: nothing when it is paid
Outstanding(row) == IF row.payment_status = PaymentPaid THEN 0 ELSE row.amount_due

\* C14: in the financial summary total_receivables is the sum of amount_due
\* over the user's non-deleted income rows whose payment status is unpaid or
\* partial, and total_payables the same sum over the user's expense rows; a
\* paid row contributes nothing whatever its amount_due, and a partial row
\* contributes its amount_due as stored when the summary is computed.
SummaryOutstanding ==
    resp.op = "GetFinancialSummary" =>
       /\ resp.data[1].total_receivables =
             Sum([i \in LiveOf(incomes, resp.user) |-> Outstanding(incomes[i])])
       /\ resp.data[1].total_payables =
             Sum([i \in LiveOf(expenses, resp.user) |-> Outstanding(expenses[i])])

\* a summary over a paid income row that still has an amount due and a
\* partial one: only the partial row's amount is receivable
SummaryOutstandingWitness ==
    /\ resp.op = "GetFinancialSummary"
    /\ \E i, j \in LiveOf(incomes, resp.user) :
          /\ incomes[i].payment_status = PaymentPaid /\ incomes[i].amount_due > 0
          /\ incomes[j].payment_status = PaymentPartial
          /\ resp.data[1].total_receivables = incomes[j].amount_due
          /\ incomes[j].amount_due > 0

\* ------------------------------------------------------ monthly analytics
\* the year a monthly request asks for
YearAsked(yearStr) == IF yearStr = "" THEN CurrentYear ELSE Atoi(yearStr).n

\* C15: the monthly analytics result for (user, year) holds exactly one
\* entry for each month that appears in the income rollup or in the expense
\* rollup and no other entry; in each entry income and expenses are the
\* rollup sums of the month, or 0 for a side with no row in the month, and
\* profit = income - expenses.  The entries come in any order.
MonthlyEntries ==
    (resp.op = "GetMonthlyData" /\ resp.code = StatusOK) =>
       LET incomeData == IncomeGetMonthlyData(resp.user, YearAsked(resp.id))
           expenseData == ExpenseGetMonthlyData(resp.user, YearAsked(resp.id))
           months == DOMAIN incomeData \cup DOMAIN expenseData
       IN /\ {resp.data[k].month : k \in DOMAIN resp.data} = months
          /\ Len(resp.data) = Cardinality(months)
          /\ \A k \in DOMAIN resp.data :
                LET e == resp.data[k]
                IN /\ e.income = IF e.month \in DOMAIN incomeData
                                 THEN incomeData[e.month] ELSE 0
                   /\ e.expenses = IF e.month \in DOMAIN expenseData
                                   THEN expenseData[e.month] ELSE 0
                   /\ e.profit = e.income - e.expenses

\* a year with income in one month only and expenses in another month only:
\* two entries, each with a zero side
MonthlyEntriesWitness ==
    /\ resp.op = "GetMonthlyData"
    /\ resp.code = StatusOK
    /\ Len(resp.data) = 2
    /\ \E j, k \in DOMAIN resp.data :
          /\ resp.data[j].income > 0 /\ resp.data[j].expenses = 0
          /\ resp.data[k].income = 0 /\ resp.data[k].expenses > 0
          /\ resp.data[k].profit < 0

\* ----------------------------------------------------- category breakdown
\* |u - v| <= d
WideWithin(u, v, d) == WideLeq(u, WideAdd(v, d)) /\ WideLeq(v, WideAdd(u, d))

\* the exponent the sums below are taken at: units of 2^-75
SumExponent == 0 - 5 * LimbBits

\* n in these units
Units(n) == WideShl(Wide(n), 0 - SumExponent)

\* 2^-40 in these units
Tolerance == WideShl(Wide(1), 0 - SumExponent - 40)

Percentages(data) == [k \in DOMAIN data |-> data[k].percentage]

\* the entries of an answered breakdown are the categories of the user's
\* live expenses, one each, with the sums of their amounts
BreakdownEntries ==
    LET live == LiveOf(expenses, resp.user)
        cats == {expenses[i].category : i \in live}
    IN /\ {resp.data[k].category : k \in DOMAIN resp.data} = cats
       /\ Len(resp.data) = Cardinality(cats)
       /\ \A k \in DOMAIN resp.data :
             resp.data[k].amount =
                Sum([i \in {j \in live : expenses[j].category = resp.data[k].category}
                        |-> expenses[i].amount])

LowStockExact ==
    resp.op = "GetLowStockItems" =>
       /\ {resp.data[k].id : k \in DOMAIN resp.data} =
             {i \in LiveOf(items, resp.user) : items[i].quantity <= items[i].min_stock_level}
       /\ \A j, k \in DOMAIN resp.data :
             /\ j # k => resp.data[j].id # resp.data[k].id
             /\ j < k => resp.data[j].quantity <= resp.data[k].quantity
       /\ \A k \in DOMAIN resp.data :
             /\ resp.data[k] = items[resp.data[k].id]
             /\ ~(resp.data[k].quantity > resp.data[k].min_stock_level)

\* two low items came back, the smaller quantity first, one of them exactly
\* at its minimum, while the user holds no other item
LowStockExactWitness ==
    /\ resp.op = "GetLowStockItems"
    /\ Len(resp.data) = 2
    /\ resp.data[1].quantity < resp.data[2].quantity
    /\ resp.data[2].quantity = resp.data[2].min_stock_level
    /\ resp.data[1].id > resp.data[2].id

\* ------------------------------------------------------------------ C18
\* the handlers registered in the protected group
GroupHandlers == {GroupHandler(route) : route \in GroupRoutes}

\* the header is "Bearer <token>" with a token signed with the server's
\* secret less than 24 hours before the instant t
FreshBearer(h, t) ==
    /\ h.parts = 2
    /\ h.scheme = "Bearer"
    /\ h.token.key = jwtSecret
    /\ h.token.iat <= t
    /\ t - h.token.iat < TokenLife

\* C18: a handler of the protected group runs only on a request that carries
\* "Authorization: Bearer <token>" with a token signed with the server's
\* secret and issued less than 24 hours earlier, and it scopes by the user id
\* inside the token whatever X-User-ID header the client sent; a request
\* answered by anything but the middleware's refusal without such a token went
\* to /health, answered 200 "OK", or to an /api/v1/auth route.
BearerGuardsGroupStep ==
    \A p \in RouterProcs :
       (calls'[p] # calls[p] /\ calls'[p].pc = "done") =>
          LET c == calls'[p]
              h == c.req.authorization
          IN /\ c.op \in GroupHandlers =>
                   /\ FreshBearer(h, now)
                   /\ resp'.user = ParseUint(h.token.user_id).n
                   /\ resp'.user \in DOMAIN users'
                   /\ users'[resp'.user].email = h.token.email
             /\ (c.op # "AuthMiddleware" /\ ~FreshBearer(h, now)) =>
                   c.req.route \in {HealthRoute} \cup AuthRoutes
             /\ c.req.route = HealthRoute =>
                   /\ c.code = StatusOK
                   /\ resp'.data = <<[body |-> "OK"]>>
             /\ c.req.route \in GroupRoutes =>
                   c.op \in GroupHandlers \cup {"AuthMiddleware"}

BearerGuardsGroup == [][BearerGuardsGroupStep]_vars

\* a protected handler has run for user 1 on a request whose token names
\* user 1 and whose X-User-ID header names user 2
BearerGuardsGroupWitness ==
    /\ calls[1].pc = "done"
    /\ calls[1].op \in GroupHandlers
    /\ calls[1].code = StatusOK
    /\ calls[1].req.authorization.token.user_id = "1"
    /\ calls[1].req.x_user_id = "2"
    /\ resp.op = calls[1].op
    /\ resp.user = 1

\* ------------------------------------------------------------------ C19
\* the body passes the validation of email, name and password
SignupWellFormed(req) ==
    /\ req.body_ok
    /\ ValidateEmail(req.email)
    /\ ValidateRequired(req.name)
    /\ ValidatePassword(req.password)

\* a row of the table holds the address
Registered(tbl, email) == \E i \in DOMAIN tbl : tbl[i].email = email

NoSharedEmail ==
    \A i, j \in DOMAIN users : i # j => users[i].email # users[j].email

\* what a step of a signup does to the users table: a signup answered 200
\* was for an address no row held and adds exactly one row, with the address;
\* any other answer leaves the table as it was; a signup whose address a row
\* holds is rejected at the step that meets the row
SignupEffect(p) ==
    LET c == calls'[p]
    IN /\ (c.pc = "done" /\ c.code = StatusOK) =>
             /\ ~Registered(users, c.req.email)
             /\ Len(users') = Len(users) + 1
             /\ \A i \in DOMAIN users : users'[i] = users[i]
             /\ users'[Len(users')].email = c.req.email
       /\ ~(c.pc = "done" /\ c.code = StatusOK) => users' = users
       /\ Registered(users, c.req.email) =>
             c.pc = "done" /\ c.code \in {StatusBadRequest, StatusInternalServerError}
       /\ (calls[p].pc = "insert" /\ ~Registered(users, c.req.email)) =>
             c.pc = "done" /\ c.code = StatusOK

SignupStepOf(p) == calls'[p] # calls[p] /\ calls'[p].op = "Signup"

SignupAnyCodeStep ==
    \A p \in Procs :
       SignupStepOf(p) =>
          /\ SignupEffect(p)
          /\ (Free(p) /\ SignupWellFormed(calls'[p].req)
                /\ ~Registered(users, calls'[p].req.email)) =>
                calls'[p].pc = "insert"

\* C19 as stated: a signup with a valid email, a non-empty name and a password
\* of at least 6 characters for an address that is not registered succeeds
\* (200) and creates exactly one user; a signup for a registered address is
\* rejected and creates or changes no user; under every interleaving of signup
\* requests no two users share an email.
SignupUnique == []NoSharedEmail /\ [][SignupAnyCodeStep]_vars

SignupRightCodeStep ==
    \A p \in Procs :
       SignupStepOf(p) =>
          /\ SignupEffect(p)
          /\ (Free(p) /\ SignupWellFormed(calls'[p].req)
                /\ calls'[p].req.admin_code \in {"", AdminCode}
                /\ ~Registered(users, calls'[p].req.email)) =>
                calls'[p].pc = "insert"

\* C19 (amended): a signup with a valid email, a non-empty name, a password
\* of at least 6 characters and an admin code that is absent or the right one,
\* for an address that is not registered, succeeds (200) and creates exactly
\* one user; a signup for a registered address is rejected and creates or
\* changes no user; under every interleaving of signup requests no two users
\* share an email.
SignupUniqueWithCode == []NoSharedEmail /\ [][SignupRightCodeStep]_vars

\* two signups for one address have raced past the lookup: one was answered
\* 200, the other met the unique index and was answered 500
SignupUniqueWithCodeWitness ==
    /\ calls[1].pc = "done" /\ calls[1].op = "Signup" /\ calls[1].code = StatusOK
    /\ calls[2].pc = "done" /\ calls[2].op = "Signup"
    /\ calls[2].code = StatusInternalServerError
    /\ calls[2].req.email = calls[1].req.email
    /\ Cardinality({i \in DOMAIN users : users[i].email = calls[1].req.email}) = 1

\* ------------------------------------------------------------------ C20
\* C20: a request during which the store failed is answered with the generic
\* internal error (500), not with record-not-found (404), invalid credentials
\* (401) or invalid-or-expired OTP (400).
StoreFailureIs500 ==
    \A p \in RouterProcs :
       (calls[p].pc = "done" /\ calls[p].req.body_ok /\ calls[p].req.store_failed) =>
          calls[p].code = StatusInternalServerError

\* ------------------------------------------------------------------ C21
\* connectToDB is still running
Connecting == main.pc \in {"openDB", "failed", "backoff"}

\* connectToDB gave up and initDB panicked
GaveUp == main.pc = "panicked" /\ main.exit = "can't connect to database"

\* the attempt ceiling: 12 calls of openDB
AttemptCeiling == MaxCounts + 2

ConnectBounded ==
    /\ main.attempts <= AttemptCeiling
    /\ main.conn =>
          /\ main.attempts = main.counts + 1
          /\ main.slept = (main.attempts - 1) * BackoffSeconds
    /\ GaveUp =>
          /\ ~main.conn
          /\ main.attempts = AttemptCeiling
          /\ main.slept = (AttemptCeiling - 1) * BackoffSeconds
    /\ main.pc = "panicked" /\ main.signal = "" => ~main.accepting /\ InFlight = {}
    /\ main.accepting => main.conn

ConnectStep ==
    /\ main.conn => main'.conn /\ main'.attempts = main.attempts /\ main'.slept = main.slept
    /\ (main.pc = "openDB" /\ main'.pc = "migrate") => main'.conn
    /\ (GaveUp \/ main.exit = "failed to migrate database") => main' = main
    /\ (main.pc = "failed" /\ main.attempts < AttemptCeiling) => main'.pc = "backoff"

\* C21: connectToDB always terminates: it returns the first connection that
\* opens and pings, with no further attempt; when every attempt fails it
\* gives up after 12 attempts with a second of backoff between consecutive
\* ones and returns nil, initDB panics, and the process never serves.
ConnectTerminates ==
    /\ []ConnectBounded
    /\ [][ConnectStep]_vars
    /\ <>(~Connecting)

\* every attempt failed and the process has ended without serving
ConnectTerminatesWitness ==
    /\ GaveUp
    /\ main.attempts = 12
    /\ main.slept = 11

\* ------------------------------------------------------------------ C22
\* the process has ended after a signal
EndedOnSignal == main.signal # "" /\ main.pc \in {"exited", "panicked"}

\* C22: on SIGINT or SIGTERM the server stops accepting, the requests in
\* flight finish, and the process then exits normally ("Server exited"),
\* whether or not a request is in flight when the signal arrives.
GracefulShutdown ==
    EndedOnSignal =>
       /\ main.exit = "Server exited"
       /\ ~main.accepting
       /\ InFlight = {}

\* ------------------------------------------------------------------ C23
\* the quantity patch goroutine p has just answered with 200
QuantityPatched(p) ==
    /\ calls'[p] # calls[p]
    /\ calls'[p].op = "UpdateQuantity"
    /\ calls'[p].code = StatusOK

QuantityPatchStep ==
    \A p \in RouterProcs :
       QuantityPatched(p) =>
          LET asked == calls'[p].req
              id == ParseUint(asked.id).n
          IN /\ id \in DOMAIN items
             /\ items[id].user_id = asked.user
             /\ Len(items') = Len(items)
             /\ items'[id].quantity = asked.quantity
             /\ items'[id].last_updated = now
             /\ items'[id] = [items[id] EXCEPT !.quantity = asked.quantity,
                                               !.last_updated = now]
             /\ \A i \in DOMAIN items : i # id => items'[i] = items[i]

\* C23: UpdateQuantity(id, user, q) on an item the caller owns sets the item's
\* quantity to q and its last-updated timestamp to the time of the call, and
\* changes nothing else: the item's name, type, unit, minimum stock level,
\* current value and owner, and every other item, stay as they were.
QuantityPatchFrame == [][QuantityPatchStep]_vars

\* an item created at minute 0 has had its quantity patched to 0 later, next
\* to another item
QuantityPatchFrameWitness ==
    /\ calls[1].op = "UpdateQuantity"
    /\ calls[1].code = StatusOK
    /\ calls[1].req.quantity = 0
    /\ Len(items) = 2
    /\ items[ParseUint(calls[1].req.id).n].quantity = 0
    /\ items[ParseUint(calls[1].req.id).n].last_updated > 0
    /\ items[ParseUint(calls[1].req.id).n].min_stock_level > 0

\* ------------------------------------------------------------------ C24
\* the years the rollups are asked for
RollupYears == {2025, 1999}

\* the live rows of a user's month, the rows the summary and the breakdown
\* would count
LiveOfMonth(table, userID, m) ==
    {i \in DOMAIN table :
        /\ table[i].user_id = userID
        /\ ~table[i].deleted
        /\ MonthOf(table[i].date) = m}

\* C24: every aggregate excludes soft-deleted rows in the same way: for any
\* user and year the per-month sums of the income and expense monthly rollups
\* count only non-deleted rows, so a deleted record's amount no longer appears
\* in the rollup of its month.
RollupsSkipDeleted ==
    \A u \in UserIds, y \in RollupYears :
       LET incomeData == IncomeGetMonthlyData(u, y)
           expenseData == ExpenseGetMonthlyData(u, y)
       IN /\ \A m \in DOMAIN incomeData :
                /\ LiveOfMonth(incomes, u, m) # {}
                /\ incomeData[m] =
                      Sum([i \in LiveOfMonth(incomes, u, m) |-> incomes[i].total_amount])
          /\ \A m \in DOMAIN expenseData :
                /\ LiveOfMonth(expenses, u, m) # {}
                /\ expenseData[m] =
                      Sum([i \in LiveOfMonth(expenses, u, m) |-> expenses[i].amount])

\* ------------------------------------------------------------------ C25
\* the fields of a stored income that come from the request body or are
\* derived from it
IncomeBody(row) ==
    [date |-> row.date, quantity |-> row.quantity,
     price_per_unit |-> row.price_per_unit, total_amount |-> row.total_amount,
     payment_status |-> row.payment_status, amount_paid |-> row.amount_paid,
     amount_due |-> row.amount_due]

ExpenseBody(row) ==
    [date |-> row.date, category |-> row.category, amount |-> row.amount,
     payment_status |-> row.payment_status, amount_paid |-> row.amount_paid,
     amount_due |-> row.amount_due]

DeletedStaysDeletedStep ==
    /\ \A i \in DOMAIN incomes : incomes[i].deleted => incomes'[i].deleted
    /\ \A i \in DOMAIN expenses : expenses[i].deleted => expenses'[i].deleted

DeletedStaysDeleted == [][DeletedStaysDeletedStep]_vars

\* ------------------------------------------------------------------ C27
RejectionCodes == {StatusBadRequest, StatusUnauthorized, StatusNotFound}

\* C27: every request answered with a validation error (400), unauthorized
\* (401) or not found (404) leaves the store unchanged: a rejected create,
\* update, delete or quantity-patch request inserts, updates and deletes no
\* row.
RejectedWritesNothingStep ==
    (resp'.op \in WriteHandlers /\ resp'.code \in RejectionCodes) =>
       /\ incomes' = incomes
       /\ expenses' = expenses
       /\ items' = items
       /\ users' = users

RejectedWritesNothing == [][RejectedWritesNothingStep]_vars

\* a PUT on another user's income was answered 404 while the store holds
\* that income and an item
RejectedWritesNothingWitness ==
    /\ resp.op = "UpdateIncome"
    /\ resp.code = StatusNotFound
    /\ resp.id = "1"
    /\ Len(incomes) = 1
    /\ incomes[1].user_id # resp.user
    /\ ~incomes[1].deleted
    /\ Len(items) = 1

\* ------------------------------------------------------------------ C28
\* what the client of goroutine p read: status, message and data
Answer(p) ==
    [code |-> calls[p].code, message |-> calls[p].req.message,
     data |-> calls[p].req.data]

\* goroutine p answered a request to op whose body passed the format checks
Probed(p, op) ==
    /\ calls[p].pc = "done"
    /\ calls[p].op = op
    /\ calls[p].req.body_ok
    /\ ValidateEmail(calls[p].req.email)
    /\ op = "Login" => ValidatePassword(calls[p].req.password)

\* C28: the responses of login and forgot-password do not reveal whether an
\* email is registered: login answers an unknown email and a wrong password
\* for a known email with the same 401 response, and forgot-password answers a
\* registered and an unregistered email with the same success response, which
\* never contains the one-time code.
NoEnumeration ==
    \A p, q \in Procs :
       /\ (Probed(p, "Login") /\ Probed(q, "Login")
              /\ calls[p].code # StatusOK /\ calls[q].code # StatusOK) =>
             /\ Answer(p) = Answer(q)
             /\ calls[p].code = StatusUnauthorized
       /\ (Probed(p, "ForgotPassword") /\ Probed(q, "ForgotPassword")) =>
             /\ Answer(p) = Answer(q)
             /\ calls[p].code = StatusOK
             /\ calls[p].req.data = <<>>
             /\ calls[p].req.message \notin generateOTP

\* goroutine 1 was refused a login for an unregistered email and goroutine 2
\* one with a wrong password for a registered email
NoEnumerationWitness ==
    /\ Probed(1, "Login") /\ Probed(2, "Login")
    /\ ~calls[1].req.known /\ calls[1].code = StatusUnauthorized
    /\ calls[2].req.known /\ calls[2].code = StatusUnauthorized

\* ------------------------------------------------------------------ C29
\* the signup goroutine p has just answered
SignupAnswered(p) ==
    /\ calls'[p] # calls[p]
    /\ calls'[p].op = "Signup"
    /\ calls'[p].pc = "done"

RolesStep ==
    /\ Len(users') >= Len(users)
    /\ \A i \in DOMAIN users : users'[i].role = users[i].role
    /\ \A i \in DOMAIN users' \ DOMAIN users :
          \E p \in RouterProcs :
             /\ SignupAnswered(p)
             /\ calls'[p].code = StatusOK
             /\ users'[i].role \in {RoleAdmin, RoleStandard}
             /\ users'[i].role = RoleAdmin <=> calls'[p].req.admin_code = AdminCode
    /\ \A p \in RouterProcs :
          (SignupAnswered(p) /\ calls'[p].req.body_ok
              /\ calls'[p].req.admin_code \notin {"", AdminCode}) =>
             /\ users' = users
             /\ calls'[p].code = StatusBadRequest

\* C29: a user has the admin role only if the signup request that created it
\* carried the exact admin code: a signup with a non-empty wrong admin code
\* creates no user, and no later request (login, profile update,
\* forgot-password, password reset) changes any user's role.
RolesFromSignup == [][RolesStep]_vars

\* an admin and a standard user exist, the standard one has reset its
\* password and edited its profile, and a signup with a wrong code was refused
RolesFromSignupWitness ==
    /\ Len(users) = 2
    /\ \E i, j \in DOMAIN users :
          /\ users[i].role = RoleAdmin
          /\ users[j].role = RoleStandard
          /\ users[j].name = "amina k"
          /\ users[j].password # HashPassword(Plain("secret1"))
    /\ calls[1].op = "Signup"
    /\ calls[1].code = StatusBadRequest
    /\ calls[1].req.admin_code = "LETMEIN"

\* ------------------------------------------------------------------ C30
\* the mine-site rows of a user
MineSitesOf(userID) == {i \in DOMAIN minesites : minesites[i].user_id = userID}

====
